---- MODULE Spec2Model ----
(***************************************************************************)
(* Model of the KATO dashboard data layer: the ClickHouse adapter          *)
(* (backend/app/db/clickhouse.py), the Redis metadata adapter              *)
(* (backend/app/db/redis_client.py), the hybrid pattern repository         *)
(* (backend/app/db/hybrid_patterns.py), the routes that expose it          *)
(* (backend/app/api/routes.py) and the composition tracer                  *)
(* (backend/app/services/hierarchy_analysis.py).                           *)
(*                                                                         *)
(* A kb_id "node{N}_{suffix}" is the tuple <<"node", N, suffix>>.          *)
(* A symbol is a sequence of atoms; the reference marker 'PTRN|' is the    *)
(* atom "PTRN|", so the symbol 'PTRN|a' is <<"PTRN|", "a">> and the plain  *)
(* symbol 'a' is <<"a">>.                                                  *)
(* pattern_data is a sequence of items, each a sequence of symbols.        *)
(* A Redis key "{kb_id}:{kind}:{name}" is the tuple <<kb_id, kind, name>>. *)
(* The stores are partial maps: ch from <<kb_id, name>> to the row of      *)
(* kato.patterns_data, redis from key to stored value.                     *)
(*                                                                         *)
(* Store faults are inputs of every operation: "connect" is the client     *)
(* getter raising (get_clickhouse_client / get_redis_client), "command"    *)
(* is the store command raising inside the adapter's try block.            *)
(*                                                                         *)
(* database_read_only stands for settings.database_read_only as the        *)
(* adapters and the repository read it (Settings in core/config.py         *)
(* declares only mongo_read_only).                                         *)
(***************************************************************************)
EXTENDS Integers, Sequences, FiniteSets, TLC

VARIABLES
    ch,         \* ClickHouse kato.patterns_data: <<kb_id, name>> -> row
    redis,      \* Redis: <<kb_id, kind, name>> -> value
    readOnly,   \* settings.database_read_only
    last,       \* the last call and what it returned to its caller
    nops,       \* number of calls made so far
    listing,    \* a client paging through listPatterns(sort_by = frequency)
    tracing,    \* the trace_pattern_graph request: arguments and progress
    nodes,      \* nodes of the running trace
    edges,      \* edges of the running trace
    visited,    \* visited of the running trace
    stack,      \* frames of trace_ancestors / trace_descendants in progress
    _symbol_cache,  \* symbol_stats._symbol_cache: kb_id -> [symbols, timestamp]
    now,        \* time.time() and datetime.now(), in seconds
    _alert_cooldowns,   \* AlertManager._alert_cooldowns: alert key -> time
    active_connections, \* ConnectionManager.active_connections
    _running,   \* ConnectionManager._running
    broadcast_task,     \* ConnectionManager.broadcast_task
    tasks       \* the tasks asyncio.create_task made: task -> its position

traceVars == <<tracing, nodes, edges, visited, stack>>

\* the state the process keeps in memory
wsVars == <<active_connections, _running, broadcast_task, tasks>>

memVars == <<_symbol_cache, now, _alert_cooldowns, wsVars>>

vars == <<ch, redis, readOnly, last, nops, listing, tracing, nodes, edges, visited, stack,
          _symbol_cache, now, _alert_cooldowns, active_connections, _running,
          broadcast_task, tasks>>

----------------------------------------------------------------------------
(* Bounds and universes *)

MaxOps == 1          \* calls per behaviour
MaxBulk == 2         \* length of a bulk-delete name list
MaxLimit == 3        \* page size of a listing
MaxStart == 1        \* skip of the first page of a listing
MaxFaults == 1       \* failing frequency fetches during one listing
MaxDepth == 2        \* max_depth of a trace request
MaxRuns == 2         \* runs of one trace request

Kb(n) == <<"node", n, "kato">>

Kinds == <<"frequency", "emotives", "metadata">>
KindSet == {Kinds[i] : i \in 1..3}

Ref(name) == <<"PTRN|", name>>
Tok(t) == <<t>>

Faults == {"ok", "connect", "command"}

----------------------------------------------------------------------------
(* Generic helpers *)

Restrict(f, S) == [x \in S |-> f[x]]

Range(s) == {s[i] : i \in 1..Len(s)}

\* the sequences that hold every element of S once
RECURSIVE Orderings(_)
Orderings(S) ==
    IF S = {} THEN {<<>>}
    ELSE UNION {{<<x>> \o p : p \in Orderings(S \ {x})} : x \in S}

Put(f, k, v) == [x \in DOMAIN f \cup {k} |-> IF x = k THEN v ELSE f[x]]

Drop(f, S) == Restrict(f, DOMAIN f \ S)

Row(name, data) == [name |-> name, pattern_data |-> data, length |-> Len(data)]

RedisKey(kb, kind, name) == <<kb, kind, name>>

\* keys_to_delete of one pattern
PatternKeys(kb, name) == {RedisKey(kb, k, name) : k \in KindSet}

KbRows(c, kb) == {k \in DOMAIN c : k[1] = kb}

KbKeys(r, kb) == {k \in DOMAIN r : k[1] = kb}

\* json.dumps / json.loads on the documents the model stores
JsonDumps(v) == <<"json", v>>

\* json.loads of a stored string
JsonLoads(x) == x[2]

\* A document is <<its Python type, its content>>; [] and {}
EmptyList == <<"list", "">>
EmptyDict == <<"dict", "">>

----------------------------------------------------------------------------
(* settings.database_read_only *)

database_read_only(ro) == ro

----------------------------------------------------------------------------
(* ClickHouse adapter (clickhouse.py).  A result is                        *)
(* [ch |-> store after, ret |-> returned value, raised |-> exception].     *)

ChRes(c, ret, raised) == [ch |-> c, ret |-> ret, raised |-> raised]

\* None when no row matches
NoRow == [name |-> "", pattern_data |-> <<>>, length |-> -1]

get_pattern_by_name(c, kb, name) ==
    IF <<kb, name>> \in DOMAIN c THEN c[<<kb, name>>] ELSE NoRow

get_pattern_count(c, kb) == Cardinality(KbRows(c, kb))

\* The names of the model in the order ORDER BY name gives them
NameOrder == <<"A", "B", "C", "D", "E", "a", "aaa", "b", "bbb", "c", "ccc", "d">>

\* get_all_pattern_names without ORDER BY name: the names come in the
\* opposite order
get_all_pattern_names_unordered(c, kb) ==
    LET names == SelectSeq(NameOrder, LAMBDA n : <<kb, n>> \in DOMAIN c)
    IN  [i \in 1..Len(names) |-> names[Len(names) + 1 - i]]

\* SELECT name ... WHERE kb_id = kb ORDER BY name
get_all_pattern_names(c, kb) ==
    SelectSeq(NameOrder, LAMBDA n : <<kb, n>> \in DOMAIN c)

delete_pattern(c, ro, kb, name, fault) ==
    IF database_read_only(ro) THEN ChRes(c, FALSE, FALSE)
    ELSE IF fault = "connect" THEN ChRes(c, FALSE, TRUE)
    ELSE IF fault = "command" THEN ChRes(c, FALSE, FALSE)
    ELSE ChRes(Drop(c, {<<kb, name>>}), TRUE, FALSE)

\* bulk_delete_patterns without "kb_id = ..." in its WHERE clause
bulk_delete_patterns_any_kb(c, ro, kb, names, fault) ==
    IF database_read_only(ro) THEN ChRes(c, 0, FALSE)
    ELSE IF names = <<>> THEN ChRes(c, 0, FALSE)
    ELSE IF fault = "connect" THEN ChRes(c, 0, TRUE)
    ELSE IF fault = "command" THEN ChRes(c, 0, FALSE)
    ELSE ChRes(Drop(c, {k \in DOMAIN c : k[2] \in Range(names)}), Len(names), FALSE)

\* names is the list pattern_names; the returned count is its length
bulk_delete_patterns(c, ro, kb, names, fault) ==
    IF database_read_only(ro) THEN ChRes(c, 0, FALSE)
    ELSE IF names = <<>> THEN ChRes(c, 0, FALSE)
    ELSE IF fault = "connect" THEN ChRes(c, 0, TRUE)
    ELSE IF fault = "command" THEN ChRes(c, 0, FALSE)
    ELSE ChRes(Drop(c, {<<kb, n>> : n \in Range(names)}), Len(names), FALSE)

\* "command" is get_pattern_count or the ALTER TABLE raising: both are
\* inside the try block and nothing has been deleted when either raises
delete_kb_id(c, ro, kb, fault) ==
    IF database_read_only(ro) THEN ChRes(c, 0, FALSE)
    ELSE IF fault = "connect" THEN ChRes(c, 0, TRUE)
    ELSE IF fault = "command" THEN ChRes(c, 0, FALSE)
    ELSE ChRes(Drop(c, KbRows(c, kb)), get_pattern_count(c, kb), FALSE)

----------------------------------------------------------------------------
(* Redis metadata adapter (redis_client.py).  A result is                  *)
(* [redis |-> store after, ret |-> returned value, raised |-> exception].  *)

RedisRes(r, ret, raised) == [redis |-> r, ret |-> ret, raised |-> raised]

\* client.set(key, value) behind the read-only guard of the three setters
SetKey(r, ro, key, value, fault) ==
    IF database_read_only(ro) THEN RedisRes(r, FALSE, FALSE)
    ELSE IF fault = "connect" THEN RedisRes(r, FALSE, TRUE)
    ELSE IF fault = "command" THEN RedisRes(r, FALSE, FALSE)
    ELSE RedisRes(Put(r, key, value), TRUE, FALSE)

set_pattern_frequency(r, ro, kb, name, frequency, fault) ==
    SetKey(r, ro, RedisKey(kb, "frequency", name), frequency, fault)

set_pattern_emotives(r, ro, kb, name, emotives, fault) ==
    SetKey(r, ro, RedisKey(kb, "emotives", name), JsonDumps(emotives), fault)

set_pattern_metadata(r, ro, kb, name, metadata, fault) ==
    SetKey(r, ro, RedisKey(kb, "metadata", name), JsonDumps(metadata), fault)

\* client.delete(*keys): removes the keys and returns how many existed
RedisDel(r, keys) == [redis |-> Drop(r, keys), n |-> Cardinality(keys \cap DOMAIN r)]

\* delete_pattern_metadata without its read-only guard
delete_pattern_metadata_unguarded(r, ro, kb, name, fault) ==
    IF fault = "connect" THEN RedisRes(r, FALSE, TRUE)
    ELSE IF fault = "command" THEN RedisRes(r, FALSE, FALSE)
    ELSE RedisRes(RedisDel(r, PatternKeys(kb, name)).redis, TRUE, FALSE)

delete_pattern_metadata(r, ro, kb, name, fault) ==
    IF database_read_only(ro) THEN RedisRes(r, FALSE, FALSE)
    ELSE IF fault = "connect" THEN RedisRes(r, FALSE, TRUE)
    ELSE IF fault = "command" THEN RedisRes(r, FALSE, FALSE)
    ELSE RedisRes(RedisDel(r, PatternKeys(kb, name)).redis, TRUE, FALSE)

bulk_delete_pattern_metadata(r, ro, kb, names, fault) ==
    LET keys_to_delete == UNION {PatternKeys(kb, n) : n \in Range(names)}
    IN  IF database_read_only(ro) THEN RedisRes(r, 0, FALSE)
        ELSE IF names = <<>> THEN RedisRes(r, 0, FALSE)
        ELSE IF fault = "connect" THEN RedisRes(r, 0, TRUE)
        ELSE IF fault = "command" THEN RedisRes(r, 0, FALSE)
        ELSE RedisRes(RedisDel(r, keys_to_delete).redis,
                      RedisDel(r, keys_to_delete).n, FALSE)

\* The keys of kb of the kinds Kinds[1..upto] (scan_iter match "{kb_id}:{kind}:*")
KbKeysUpTo(r, kb, upto) ==
    {k \in KbKeys(r, kb) : \E i \in 1..upto : k[2] = Kinds[i]}

\* The loop deletes one kind after the other; with "command" the scan or the
\* delete of kind Kinds[failAt] raises after the kinds before it are gone.
\* (Each kind has fewer than 1000 keys here, so each kind is one batch.)
delete_kb_metadata(r, ro, kb, fault, failAt) ==
    IF database_read_only(ro) THEN RedisRes(r, 0, FALSE)
    ELSE IF fault = "connect" THEN RedisRes(r, 0, TRUE)
    ELSE IF fault = "command"
         THEN RedisRes(Drop(r, KbKeysUpTo(r, kb, failAt - 1)), 0, FALSE)
    ELSE RedisRes(Drop(r, KbKeys(r, kb)), Cardinality(KbKeys(r, kb)), FALSE)

\* int(freq) if freq else 0, and 0 when the read raises inside the try block
get_pattern_frequency(r, kb, name, fault) ==
    IF fault = "command" THEN 0
    ELSE IF RedisKey(kb, "frequency", name) \in DOMAIN r
         THEN r[RedisKey(kb, "frequency", name)] ELSE 0

\* A stored string is <<"json", document>> when it is the JSON text of a
\* document, and <<"text", ...>> when json.loads cannot parse it.
IsJson(raw) == raw[1] = "json"

\* The exception that leaves get_pattern_emotives and get_pattern_metadata
\* when client.get raises: `json` is a local name of the function, bound by
\* the `import json` after the read, and `except json.JSONDecodeError` is
\* evaluated before it is bound.
UnboundLocalError == <<"UnboundLocalError", "">>

\* get_pattern_emotives that returns whatever the JSON decodes to
get_pattern_emotives_any_type(r, kb, name, fault) ==
    IF fault = "command" THEN UnboundLocalError
    ELSE IF RedisKey(kb, "emotives", name) \notin DOMAIN r THEN EmptyList
    ELSE IF ~IsJson(r[RedisKey(kb, "emotives", name)]) THEN EmptyList
    ELSE JsonLoads(r[RedisKey(kb, "emotives", name)])

\* get_pattern_emotives: [] without the key, when the stored string is not
\* JSON and when the stored JSON is not a list
get_pattern_emotives(r, kb, name, fault) ==
    IF fault = "command" THEN UnboundLocalError
    ELSE IF RedisKey(kb, "emotives", name) \notin DOMAIN r THEN EmptyList
    ELSE IF ~IsJson(r[RedisKey(kb, "emotives", name)]) THEN EmptyList
    ELSE IF JsonLoads(r[RedisKey(kb, "emotives", name)])[1] # "list" THEN EmptyList
    ELSE JsonLoads(r[RedisKey(kb, "emotives", name)])

\* get_pattern_metadata: {} without the key, when the stored string is not
\* JSON and when the stored JSON is not a dict
get_pattern_metadata(r, kb, name, fault) ==
    IF fault = "command" THEN UnboundLocalError
    ELSE IF RedisKey(kb, "metadata", name) \notin DOMAIN r THEN EmptyDict
    ELSE IF ~IsJson(r[RedisKey(kb, "metadata", name)]) THEN EmptyDict
    ELSE IF JsonLoads(r[RedisKey(kb, "metadata", name)])[1] # "dict" THEN EmptyDict
    ELSE JsonLoads(r[RedisKey(kb, "metadata", name)])

\* name -> frequency for the listed names; all 0 when the pipeline raises
get_patterns_frequencies_batch(r, kb, names, fault) ==
    [n \in Range(names) |->
        IF fault = "command" THEN 0
        ELSE IF RedisKey(kb, "frequency", n) \in DOMAIN r
             THEN r[RedisKey(kb, "frequency", n)] ELSE 0]

----------------------------------------------------------------------------
(* Hybrid pattern repository (hybrid_patterns.py).  A result is            *)
(* [ch, redis |-> stores after, ret |-> returned value].  Every exception  *)
(* raised below the read-only guard is caught by the function itself.      *)

HybridRes(c, r, ret) == [ch |-> c, redis |-> r, ret |-> ret]

\* The fault of the Redis access (a write of an update, a read of
\* getPattern) of one kind:
\* fault = [connect |-> BOOLEAN, failing |-> set of kinds whose command raises]
WriteFault(fault, kind) ==
    IF fault.connect THEN "connect"
    ELSE IF kind \in fault.failing THEN "command" ELSE "ok"

\* "if kind in updates: await redis_client.set_pattern_<kind>(...)" on a
\* running result x = [redis, raised]; the setter's return value is dropped
UpdateStep(x, ro, kb, name, updates, fault, kind) ==
    IF x.raised \/ kind \notin DOMAIN updates THEN x
    ELSE LET w == IF kind = "frequency"
                  THEN set_pattern_frequency(x.redis, ro, kb, name, updates[kind],
                                             WriteFault(fault, kind))
                  ELSE IF kind = "emotives"
                  THEN set_pattern_emotives(x.redis, ro, kb, name, updates[kind],
                                            WriteFault(fault, kind))
                  ELSE set_pattern_metadata(x.redis, ro, kb, name, updates[kind],
                                            WriteFault(fault, kind))
         IN  [redis |-> w.redis, raised |-> w.raised]

\* update_pattern_hybrid that also applies the ClickHouse fields its docstring
\* lists as supported (pattern_data, length)
update_pattern_hybrid_writes_ch(c, r, ro, kb, name, updates, fault) ==
    IF database_read_only(ro) THEN HybridRes(c, r, FALSE)
    ELSE LET x0 == [redis |-> r, raised |-> FALSE]
             x1 == UpdateStep(x0, ro, kb, name, updates, fault, "frequency")
             x2 == UpdateStep(x1, ro, kb, name, updates, fault, "emotives")
             x3 == UpdateStep(x2, ro, kb, name, updates, fault, "metadata")
             c1 == IF "pattern_data" \in DOMAIN updates /\ <<kb, name>> \in DOMAIN c
                   THEN Put(c, <<kb, name>>, Row(name, updates["pattern_data"]))
                   ELSE c
         IN  HybridRes(c1, x3.redis, ~x3.raised)

update_pattern_hybrid(c, r, ro, kb, name, updates, fault) ==
    IF database_read_only(ro) THEN HybridRes(c, r, FALSE)
    ELSE LET x0 == [redis |-> r, raised |-> FALSE]
             x1 == UpdateStep(x0, ro, kb, name, updates, fault, "frequency")
             x2 == UpdateStep(x1, ro, kb, name, updates, fault, "emotives")
             x3 == UpdateStep(x2, ro, kb, name, updates, fault, "metadata")
         IN  HybridRes(c, x3.redis, ~x3.raised)

\* delete_pattern_hybrid with "ch_success or redis_success"
delete_pattern_hybrid_either(c, r, ro, kb, name, chFault, redisFault) ==
    IF database_read_only(ro) THEN HybridRes(c, r, FALSE)
    ELSE LET d == delete_pattern(c, ro, kb, name, chFault)
             m == delete_pattern_metadata(r, ro, kb, name, redisFault)
         IN  IF d.raised THEN HybridRes(c, r, FALSE)
             ELSE IF m.raised THEN HybridRes(d.ch, r, FALSE)
             ELSE HybridRes(d.ch, m.redis, d.ret \/ m.ret)

delete_pattern_hybrid(c, r, ro, kb, name, chFault, redisFault) ==
    IF database_read_only(ro) THEN HybridRes(c, r, FALSE)
    ELSE LET d == delete_pattern(c, ro, kb, name, chFault)
             m == delete_pattern_metadata(r, ro, kb, name, redisFault)
         IN  IF d.raised THEN HybridRes(c, r, FALSE)
             ELSE IF m.raised THEN HybridRes(d.ch, r, FALSE)
             ELSE HybridRes(d.ch, m.redis, d.ret /\ m.ret)

\* The returned dict; the key 'error' is present only where the code sets it
Counts(ch_deleted, redis_deleted, total) ==
    [clickhouse_deleted |-> ch_deleted, redis_keys_deleted |-> redis_deleted,
     total |-> total]

CountsError(total, error) ==
    [clickhouse_deleted |-> 0, redis_keys_deleted |-> 0, total |-> total,
     error |-> error]

bulk_delete_patterns_hybrid(c, r, ro, kb, names, chFault, redisFault) ==
    IF database_read_only(ro) THEN HybridRes(c, r, Counts(0, 0, 0))
    ELSE IF names = <<>> THEN HybridRes(c, r, Counts(0, 0, 0))
    ELSE LET d == bulk_delete_patterns(c, ro, kb, names, chFault)
             m == bulk_delete_pattern_metadata(r, ro, kb, names, redisFault)
         IN  IF d.raised THEN HybridRes(c, r, CountsError(0, "exception"))
             ELSE IF m.raised THEN HybridRes(d.ch, r, CountsError(0, "exception"))
             ELSE HybridRes(d.ch, m.redis, Counts(d.ret, m.ret, Len(names)))

KbCounts(ch_deleted, redis_deleted, kb) ==
    [clickhouse_deleted |-> ch_deleted, redis_keys_deleted |-> redis_deleted,
     kb_id |-> kb]

KbCountsError(kb, error) ==
    [clickhouse_deleted |-> 0, redis_keys_deleted |-> 0, kb_id |-> kb,
     error |-> error]

delete_knowledgebase_hybrid(c, r, ro, kb, chFault, redisFault, failAt) ==
    IF database_read_only(ro)
    THEN HybridRes(c, r, KbCountsError(kb, "Read-only mode enabled"))
    ELSE LET d == delete_kb_id(c, ro, kb, chFault)
             m == delete_kb_metadata(r, ro, kb, redisFault, failAt)
         IN  IF d.raised THEN HybridRes(c, r, KbCountsError(kb, "exception"))
             ELSE IF m.raised THEN HybridRes(d.ch, r, KbCountsError(kb, "exception"))
             ELSE HybridRes(d.ch, m.redis, KbCounts(d.ret, m.ret, kb))

\* the outcome of get_pattern_by_id_hybrid: an exception, None (found FALSE)
\* or the pattern dictionary
PatternRes(raised, found, pattern) ==
    [raised |-> raised, found |-> found, pattern |-> pattern]

\* no read fails
NoFault == [connect |-> FALSE, failing |-> {}]

\* get_pattern_by_id_hybrid: None (NotFound) exactly when ClickHouse has no
\* row; get_redis_client raising leaves the function as an exception, and
\* so does the exception of an emotives or metadata getter; a client.get
\* raising in get_pattern_frequency is caught inside the getter
get_pattern_by_id_hybrid(c, r, kb, name, fault) ==
    LET p == get_pattern_by_name(c, kb, name)
    IN  IF p = NoRow THEN PatternRes(FALSE, FALSE, <<>>)
        ELSE IF fault.connect THEN PatternRes(TRUE, FALSE, <<>>)
        ELSE IF UnboundLocalError
                    \in {get_pattern_emotives(r, kb, name, WriteFault(fault, "emotives")),
                         get_pattern_metadata(r, kb, name, WriteFault(fault, "metadata"))}
        THEN PatternRes(TRUE, FALSE, <<>>)
        ELSE PatternRes(FALSE, TRUE,
                 [name |-> p.name,
                  pattern_data |-> p.pattern_data,
                  length |-> p.length,
                  frequency |-> get_pattern_frequency(r, kb, name,
                                    WriteFault(fault, "frequency")),
                  emotives |-> get_pattern_emotives(r, kb, name,
                                    WriteFault(fault, "emotives")),
                  metadata |-> get_pattern_metadata(r, kb, name,
                                    WriteFault(fault, "metadata"))])

\* sorted(names, key = frequencies.get(name, 0), reverse = ...): a stable
\* sort; with reverse the keys descend and equal keys keep their order
RECURSIVE sorted(_, _, _)
sorted(names, key, reverse) ==
    IF names = <<>> THEN <<>>
    ELSE LET n == Len(names)
             x == names[n]
             init == sorted(SubSeq(names, 1, n - 1), key, reverse)
             Before(y) == IF reverse THEN key[y] >= key[x] ELSE key[y] <= key[x]
             k == Cardinality({i \in 1..Len(init) : Before(init[i])})
         IN  SubSeq(init, 1, k) \o <<x>> \o SubSeq(init, k + 1, Len(init))

\* s[lo:hi] taken from the head of the list, whatever lo is
SliceFromHead(s, lo, hi) ==
    SubSeq(s, 1, IF hi - lo < Len(s) THEN hi - lo ELSE Len(s))

\* s[lo:hi] of a Python list, 0 <= lo <= hi
Slice(s, lo, hi) ==
    IF lo >= Len(s) THEN <<>>
    ELSE SubSeq(s, lo + 1, IF hi < Len(s) THEN hi ELSE Len(s))

\* the dictionary built for one row of a page
ListItem(p, frequencies) ==
    [name |-> p.name, pattern_data |-> p.pattern_data, length |-> p.length,
     frequency |-> frequencies[p.name], emotives |-> "{}", metadata |-> "{}"]

ListRes(patterns, total, skip, limit, raised) ==
    [patterns |-> patterns, total |-> total, skip |-> skip, limit |-> limit,
     has_more |-> skip + Len(patterns) < total, raised |-> raised]

\* _get_patterns_sorted_by_frequency; fault is the fault of the batch fetch of
\* the frequencies (get_redis_client raising ends the call with an exception)
_get_patterns_sorted_by_frequency(c, r, kb, skip, limit, sort_order, fault) ==
    LET all_names == get_all_pattern_names(c, kb)
        frequencies == get_patterns_frequencies_batch(r, kb, all_names, fault)
        sorted_names == sorted(all_names, frequencies, sort_order = -1)
        page_names == Slice(sorted_names, skip, skip + limit)
        found == SelectSeq(page_names, LAMBDA n : get_pattern_by_name(c, kb, n) # NoRow)
    IN  IF fault = "connect" /\ all_names # <<>> THEN ListRes(<<>>, 0, skip, limit, TRUE)
        ELSE ListRes([i \in 1..Len(found) |->
                         ListItem(get_pattern_by_name(c, kb, found[i]), frequencies)],
                     Len(all_names), skip, limit, FALSE)

\* get_patterns_hybrid with sort_by = 'frequency'
get_patterns_hybrid(c, r, kb, skip, limit, sort_order, fault) ==
    _get_patterns_sorted_by_frequency(c, r, kb, skip, limit, sort_order, fault)

----------------------------------------------------------------------------
(* Route handlers (routes.py): the HTTP response built from a result *)

Http(status, body) == [status |-> status, body |-> body]

delete_pattern_from_hybrid(success) ==
    IF ~success THEN Http(400, "Failed to delete pattern (check read-only mode)")
    ELSE Http(200, [success |-> TRUE])

bulk_delete_patterns_from_hybrid(names, result) ==
    IF names = <<>> THEN Http(400, "No pattern names provided")
    ELSE IF "error" \in DOMAIN result THEN Http(400, result.error)
    ELSE Http(200, [success |-> TRUE, result |-> result])

\* get_pattern_detail: 404 for None, 500 for an exception, else the pattern
get_pattern_detail(c, r, kb, name, fault) ==
    LET pattern == get_pattern_by_id_hybrid(c, r, kb, name, fault)
    IN  IF pattern.raised THEN Http(500, "exception")
        ELSE IF ~pattern.found THEN Http(404, "Pattern not found")
        ELSE Http(200, pattern.pattern)

\* A request value is <<its Python type, the value>>.  update_pattern keeps
\* the fields frequency, emotives and metadata of the request; whatever
\* else the request holds is not looked at.
ExtractUpdates(request) ==
    [f \in DOMAIN request \cap KindSet |->
        IF f = "frequency" THEN request[f][2] ELSE request[f]]

\* update_pattern (PUT): result [ch, redis |-> stores after, response]
update_pattern(c, r, ro, kb, name, request, readFault, writeFault) ==
    LET existing_pattern == get_pattern_by_id_hybrid(c, r, kb, name, readFault)
        updates == ExtractUpdates(request)
        res == update_pattern_hybrid(c, r, ro, kb, name, updates, writeFault)
        updated_pattern == get_pattern_by_id_hybrid(res.ch, res.redis, kb, name, readFault)
        Unchanged(response) == [ch |-> c, redis |-> r, response |-> response]
    IN  IF existing_pattern.raised THEN Unchanged(Http(500, "exception"))
        ELSE IF ~existing_pattern.found THEN Unchanged(Http(404, "Pattern not found"))
        ELSE IF "frequency" \in DOMAIN request
                /\ (request["frequency"][1] # "int" \/ request["frequency"][2] < 0)
        THEN Unchanged(Http(400, "Frequency must be a non-negative integer"))
        ELSE IF "emotives" \in DOMAIN request /\ request["emotives"][1] # "dict"
        THEN Unchanged(Http(400, "Emotives must be a dictionary"))
        ELSE IF "metadata" \in DOMAIN request /\ request["metadata"][1] # "dict"
        THEN Unchanged(Http(400, "Metadata must be a dictionary"))
        ELSE IF DOMAIN updates = {}
        THEN Unchanged(Http(400, "No valid fields to update (frequency, emotives, metadata)"))
        ELSE IF ~res.ret
        THEN [ch |-> res.ch, redis |-> res.redis,
              response |-> Http(500, "Failed to update pattern (check read-only mode)")]
        ELSE IF updated_pattern.raised
        THEN [ch |-> res.ch, redis |-> res.redis, response |-> Http(500, "exception")]
        ELSE [ch |-> res.ch, redis |-> res.redis,
              response |-> Http(200, IF updated_pattern.found
                                     THEN updated_pattern.pattern ELSE "None")]

delete_knowledgebase_from_hybrid(result) ==
    IF "error" \in DOMAIN result THEN Http(400, result.error)
    ELSE Http(200, [success |-> TRUE, result |-> result])

----------------------------------------------------------------------------
(* The repository under calls: universe of the specification Spec *)

SpecKbs == {Kb(0), Kb(1)}
Names == {"a", "b"}
SpecKeys == SpecKbs \X Names

\* pattern_data of the rows of Spec: tokens at level 0, references above
SpecData(kb, name) ==
    IF kb[2] = 0 THEN <<<<Tok(name)>>, <<Tok("t")>>>>
    ELSE <<<<Ref("a")>>, <<Ref("b")>>>>

SpecCh(present) == [k \in present |-> Row(k[2], SpecData(k[1], k[2]))]

\* what the ingesting process stores for a pattern it creates
SpecRedis(present) ==
    [k \in UNION {PatternKeys(p[1], p[2]) : p \in present} |->
        IF k[2] = "frequency" THEN 1
        ELSE IF k[2] = "emotives" THEN JsonDumps(<<"list", "doc0">>)
        ELSE JsonDumps(<<"dict", "doc0">>)]

UpdateFields == {"frequency", "emotives", "metadata", "pattern_data"}

UpdateValue(field) ==
    IF field = "frequency" THEN 7
    ELSE IF field = "pattern_data" THEN <<<<Tok("z")>>>>
    ELSE <<"dict", "doc1">>

UpdateFieldSets ==
    {{}, {"frequency"}, {"emotives", "metadata"},
     {"frequency", "emotives", "metadata"}, {"pattern_data"},
     {"frequency", "pattern_data"}}

UpdatePayloads == {[f \in F |-> UpdateValue(f)] : F \in UpdateFieldSets}

UpdateFaults ==
    {[connect |-> TRUE, failing |-> {}]}
        \cup {[connect |-> FALSE, failing |-> F] :
                 F \in {{}, {"frequency"}, {"emotives", "metadata"}}}

\* <<ClickHouse fault, Redis fault>> of a call that uses both stores
FaultPairs ==
    {<<"ok", "ok">>, <<"ok", "command">>, <<"ok", "connect">>,
     <<"command", "ok">>, <<"connect", "ok">>, <<"command", "command">>}

NameLists == UNION {[1..n -> Names] : n \in 0..MaxBulk}

NoCall == [op |-> "none"]

NoListing == [kb |-> Kb(0), limit |-> 0, sort_order |-> 0, start |-> 0,
              pages |-> <<>>, faults |-> 0]

\* no kb_id (None)
NoKb == <<"None">>

\* a request trace_pattern_graph(pattern_name, kb_id, max_depth); kb_id is
\* the argument, origin_kb the kb the trace runs from, missing the lookups
\* that found no row, first the counts of the first of two runs
TraceRequest(pattern_name, kb_id, max_depth, pc) ==
    [pattern_name |-> pattern_name, kb_id |-> kb_id, max_depth |-> max_depth,
     pc |-> pc, origin_kb |-> NoKb, fault |-> "ok", missing |-> {},
     run |-> 1, first |-> <<>>, statistics |-> <<>>]

\* no trace requested
\* no task (None)
NoTask == 0

\* ConnectionManager.__init__
NoConnections ==
    /\ active_connections = <<>>
    /\ _running = FALSE
    /\ broadcast_task = NoTask
    /\ tasks = <<>>

NoMem ==
    /\ _symbol_cache = <<>>
    /\ now = 0
    /\ _alert_cooldowns = <<>>
    /\ NoConnections

NoTrace ==
    /\ NoMem
    /\ tracing = TraceRequest("", NoKb, 0, "none")
    /\ nodes = <<>>
    /\ edges = <<>>
    /\ visited = {}
    /\ stack = <<>>

Init ==
    /\ readOnly \in BOOLEAN
    /\ \E present \in SUBSET SpecKeys :
          /\ ch = SpecCh(present)
          /\ redis = SpecRedis(present)
    /\ last = NoCall
    /\ nops = 0
    /\ listing = NoListing
    /\ NoTrace

Called(c, r, call) ==
    /\ nops < MaxOps
    /\ nops' = nops + 1
    /\ ch' = c
    /\ redis' = r
    /\ last' = call
    /\ UNCHANGED <<readOnly, listing, traceVars, memVars>>

UpdatePattern ==
    \E kb \in SpecKbs, name \in Names, updates \in UpdatePayloads, fault \in UpdateFaults :
        LET res == update_pattern_hybrid(ch, redis, readOnly, kb, name, updates, fault)
        IN  Called(res.ch, res.redis,
                   [op |-> "update_pattern_hybrid", kb |-> kb, name |-> name,
                    updates |-> updates, fault |-> fault, ro |-> readOnly,
                    ret |-> res.ret])

DeletePattern ==
    \E kb \in SpecKbs, name \in Names, fp \in FaultPairs :
        LET chFault == fp[1]
            redisFault == fp[2]
            res == delete_pattern_hybrid(ch, redis, readOnly, kb, name, chFault, redisFault)
        IN  Called(res.ch, res.redis,
                   [op |-> "delete_pattern_hybrid", kb |-> kb, name |-> name,
                    chFault |-> chFault, redisFault |-> redisFault, ro |-> readOnly,
                    ret |-> res.ret,
                    response |-> delete_pattern_from_hybrid(res.ret),
                    existed |-> <<kb, name>> \in DOMAIN ch])

BulkDeletePatterns ==
    \E kb \in SpecKbs, names \in NameLists, fp \in FaultPairs :
        LET chFault == fp[1]
            redisFault == fp[2]
            res == bulk_delete_patterns_hybrid(ch, redis, readOnly, kb, names,
                                               chFault, redisFault)
        IN  Called(res.ch, res.redis,
                   [op |-> "bulk_delete_patterns_hybrid", kb |-> kb, names |-> names,
                    chFault |-> chFault, redisFault |-> redisFault, ro |-> readOnly,
                    ret |-> res.ret,
                    response |-> bulk_delete_patterns_from_hybrid(names, res.ret)])

DeleteKnowledgeBase ==
    \E kb \in SpecKbs, fp \in FaultPairs, failAt \in 1..3 :
        LET chFault == fp[1]
            redisFault == fp[2]
            res == delete_knowledgebase_hybrid(ch, redis, readOnly, kb,
                                               chFault, redisFault, failAt)
        IN  /\ redisFault = "command" \/ failAt = 1
            /\ Called(res.ch, res.redis,
                   [op |-> "delete_knowledgebase_hybrid", kb |-> kb,
                    chFault |-> chFault, redisFault |-> redisFault, failAt |-> failAt,
                    ro |-> readOnly, ret |-> res.ret,
                    response |-> delete_knowledgebase_from_hybrid(res.ret),
                    members |-> KbRows(ch, kb)])

\* The adapters' own mutating functions, called directly
AdapterCall(c, r, op, kb, x) ==
    Called(c, r, [op |-> op, kb |-> kb, ro |-> readOnly, ret |-> x.ret,
                  raised |-> x.raised])

RedisAdapterSet ==
    \E kb \in SpecKbs, name \in Names, fault \in Faults :
        \/ LET x == set_pattern_frequency(redis, readOnly, kb, name, 7, fault)
           IN  AdapterCall(ch, x.redis, "set_pattern_frequency", kb, x)
        \/ LET x == set_pattern_emotives(redis, readOnly, kb, name, <<"dict", "doc1">>, fault)
           IN  AdapterCall(ch, x.redis, "set_pattern_emotives", kb, x)
        \/ LET x == set_pattern_metadata(redis, readOnly, kb, name, <<"dict", "doc1">>, fault)
           IN  AdapterCall(ch, x.redis, "set_pattern_metadata", kb, x)

RedisAdapterDelete ==
    \E kb \in SpecKbs, fault \in Faults :
        \/ \E name \in Names :
             LET x == delete_pattern_metadata(redis, readOnly, kb, name, fault)
             IN  AdapterCall(ch, x.redis, "delete_pattern_metadata", kb, x)
        \/ \E names \in NameLists :
             LET x == bulk_delete_pattern_metadata(redis, readOnly, kb, names, fault)
             IN  AdapterCall(ch, x.redis, "bulk_delete_pattern_metadata", kb, x)
        \/ \E failAt \in 1..3 :
             LET x == delete_kb_metadata(redis, readOnly, kb, fault, failAt)
             IN  /\ fault = "command" \/ failAt = 1
                 /\ AdapterCall(ch, x.redis, "delete_kb_metadata", kb, x)

ClickHouseAdapterDelete ==
    \E kb \in SpecKbs, fault \in Faults :
        \/ \E name \in Names :
             LET x == delete_pattern(ch, readOnly, kb, name, fault)
             IN  AdapterCall(x.ch, redis, "delete_pattern", kb, x)
        \/ \E names \in NameLists :
             LET x == bulk_delete_patterns(ch, readOnly, kb, names, fault)
             IN  AdapterCall(x.ch, redis, "bulk_delete_patterns", kb, x)
        \/ LET x == delete_kb_id(ch, readOnly, kb, fault)
           IN  AdapterCall(x.ch, redis, "delete_kb_id", kb, x)

Next ==
    \/ UpdatePattern
    \/ DeletePattern
    \/ BulkDeletePatterns
    \/ DeleteKnowledgeBase
    \/ RedisAdapterSet
    \/ RedisAdapterDelete
    \/ ClickHouseAdapterDelete

Spec == Init /\ [][Next]_vars

----------------------------------------------------------------------------
(* Listing by frequency: a client pages through one knowledge base whose   *)
(* rows and frequencies stay as they are.                                  *)

ListKb == Kb(0)
ListNames == {"A", "B", "C", "D", "E"}

\* frequency stored for each name; -1: the pattern has no frequency key
FrequencyMaps ==
    {[A |-> 10, B |-> 5, C |-> 20, D |-> 1, E |-> 7],
     [A |-> 5, B |-> 5, C |-> 20, D |-> 5, E |-> -1],
     [A |-> 1, B |-> 2, C |-> 1, D |-> 2, E |-> 1],
     [A |-> 0, B |-> -1, C |-> 0, D |-> 3, E |-> -1]}

\* the rows of ListKb, and one row of the same name in another kb
ListCh(present) ==
    [k \in ({ListKb} \X present) \cup {<<Kb(1), "A">>} |->
        Row(k[2], <<<<Tok(k[2])>>>>)]

ListRedis(present, fm) ==
    [k \in {RedisKey(ListKb, "frequency", n) : n \in {m \in present : fm[m] >= 0}}
           \cup {RedisKey(Kb(1), "frequency", "A")} |->
        IF k[1] = ListKb THEN fm[k[3]] ELSE 99]

InitList ==
    /\ readOnly = FALSE
    /\ \E present \in SUBSET ListNames, fm \in FrequencyMaps :
          /\ ch = ListCh(present)
          /\ redis = ListRedis(present, fm)
    /\ last = NoCall
    /\ nops = 0
    /\ \E limit \in 1..MaxLimit, sort_order \in {1, -1}, start \in 0..MaxStart :
          listing = [kb |-> ListKb, limit |-> limit, sort_order |-> sort_order,
                     start |-> start, pages |-> <<>>, faults |-> 0]
    /\ NoTrace

\* skip of the next page the client asks for
NextSkip == listing.start + Len(listing.pages) * listing.limit

\* has_more of the last page received (True before the first page)
MorePages ==
    IF listing.pages = <<>> THEN TRUE
    ELSE listing.pages[Len(listing.pages)].result.has_more

\* The client asks for the next page until a page says has_more = False; a
\* request that ends with an exception is asked again.
ListPage ==
    \E fault \in Faults :
        LET res == get_patterns_hybrid(ch, redis, listing.kb, NextSkip,
                                       listing.limit, listing.sort_order, fault)
        IN  /\ MorePages
            /\ fault # "ok" => listing.faults < MaxFaults
            /\ listing' =
                  [listing EXCEPT
                      !.pages = IF res.raised THEN @
                                ELSE Append(@, [fault |-> fault, result |-> res]),
                      !.faults = IF fault = "ok" THEN @ ELSE @ + 1]
            /\ UNCHANGED <<ch, redis, readOnly, last, nops, traceVars, memVars>>

NextList == ListPage

SpecList == InitList /\ [][NextList]_vars

----------------------------------------------------------------------------
(* Properties of the repository under calls (specification Spec) *)

IsCall(op) == nops > 0 /\ last.op = op

\* C2: deletePattern reports success (returns True, and the route answers 200)
\* only if read-only mode is off and the delete of neither store failed, was
\* rejected or raised; the row and the three metadata keys are then gone.
C2_DeleteSuccessNeedsBothStores ==
    IsCall("delete_pattern_hybrid") =>
        /\ last.response.status = 200 <=> last.ret
        /\ last.ret =>
              /\ ~last.ro
              /\ last.chFault = "ok"
              /\ last.redisFault = "ok"
              /\ <<last.kb, last.name>> \notin DOMAIN ch
              /\ PatternKeys(last.kb, last.name) \cap DOMAIN redis = {}

C2_Witness ==
    /\ IsCall("delete_pattern_hybrid")
    /\ last.ret
    /\ last.existed

\* The delete of exactly one store succeeded and the other store's failed
PartialDelete ==
    /\ IsCall("delete_pattern_hybrid")
    /\ ~last.ro
    /\ \/ last.chFault = "ok" /\ last.redisFault # "ok"
       \/ last.chFault = "command" /\ last.redisFault = "ok"

\* C3: a deletePattern that succeeded in exactly one store returns a result
\* (and the route a response) that differs from the one of a full success and
\* from the one returned when both stores fail.
C3_PartialFailureDistinct ==
    PartialDelete =>
        LET both_ok == delete_pattern_hybrid(ch, redis, FALSE, last.kb, last.name,
                                             "ok", "ok").ret
            both_fail == delete_pattern_hybrid(ch, redis, FALSE, last.kb, last.name,
                                               "command", "command").ret
        IN  /\ last.ret # both_ok
            /\ last.ret # both_fail
            /\ last.response # delete_pattern_from_hybrid(both_ok)
            /\ last.response # delete_pattern_from_hybrid(both_fail)

\* C4: in read-only mode no call, of the repository or of an adapter, changes
\* the contents of ClickHouse or of Redis.
C4_ReadOnlyLeavesStores ==
    [][readOnly => (ch' = ch /\ redis' = redis)]_vars

C4_Witness ==
    /\ readOnly
    /\ \/ IsCall("delete_knowledgebase_hybrid") /\ KbRows(ch, last.kb) # {}
       \/ IsCall("delete_pattern_metadata") /\ KbKeys(redis, last.kb) # {}

\* What a repository mutation can return, from the stores c and r, when
\* read-only mode is off: a success or an upstream failure
WritableResults(c, r, call) ==
    IF call.op = "update_pattern_hybrid"
    THEN {update_pattern_hybrid(c, r, FALSE, call.kb, call.name, call.updates, f).ret :
             f \in UpdateFaults}
    ELSE IF call.op = "delete_pattern_hybrid"
    THEN {delete_pattern_hybrid(c, r, FALSE, call.kb, call.name, f, g).ret :
             f \in Faults, g \in Faults}
    ELSE IF call.op = "bulk_delete_patterns_hybrid"
    THEN {bulk_delete_patterns_hybrid(c, r, FALSE, call.kb, call.names, f, g).ret :
             f \in Faults, g \in Faults}
    ELSE {delete_knowledgebase_hybrid(c, r, FALSE, call.kb, f, g, 1).ret :
             f \in Faults, g \in Faults}

RepositoryMutations ==
    {"update_pattern_hybrid", "delete_pattern_hybrid",
     "bulk_delete_patterns_hybrid", "delete_knowledgebase_hybrid"}

\* C5: a repository mutation attempted in read-only mode returns a result that
\* the same call cannot return when read-only mode is off (neither its success
\* nor its upstream failure).
C5_ReadOnlyRejectedDistinct ==
    (nops > 0 /\ last.op \in RepositoryMutations /\ last.ro) =>
        last.ret \notin WritableResults(ch, redis, last)

\* C6: after a deleteKnowledgeBase that reports no error (read-only mode off)
\* ClickHouse holds no row of the kb, Redis holds no key of the kb and
\* getPattern finds none of the former members.
C6_DeleteKbRemovesEverything ==
    (IsCall("delete_knowledgebase_hybrid") /\ ~last.ro /\ "error" \notin DOMAIN last.ret) =>
        /\ KbRows(ch, last.kb) = {}
        /\ KbKeys(redis, last.kb) = {}
        /\ \A k \in last.members :
              ~get_pattern_by_id_hybrid(ch, redis, k[1], k[2], NoFault).found

----------------------------------------------------------------------------
(* Claims about the listing *)

\* the frequency the metadata store holds for a pattern (0 without a key)
StoredFrequency(kb, name) ==
    IF RedisKey(kb, "frequency", name) \in DOMAIN redis
    THEN redis[RedisKey(kb, "frequency", name)] ELSE 0

\* the orders of all names of kb, each once, by frequency in the direction
FrequencyOrders(kb, sort_order) ==
    {o \in Orderings({k[2] : k \in KbRows(ch, kb)}) :
        \A i \in 1..(Len(o) - 1) :
            IF sort_order = -1
            THEN StoredFrequency(kb, o[i]) >= StoredFrequency(kb, o[i + 1])
            ELSE StoredFrequency(kb, o[i]) <= StoredFrequency(kb, o[i + 1])}

PageNames(i) ==
    [j \in 1..Len(listing.pages[i].result.patterns) |->
        listing.pages[i].result.patterns[j].name]

RECURSIVE PagesConcatenated(_)
PagesConcatenated(n) ==
    IF n = 0 THEN <<>> ELSE PagesConcatenated(n - 1) \o PageNames(n)

ListingUndisturbed ==
    \A i \in 1..Len(listing.pages) : listing.pages[i].fault = "ok"

ExampleStore ==
    /\ ch = ListCh(ListNames)
    /\ redis = ListRedis(ListNames, [A |-> 10, B |-> 5, C |-> 20, D |-> 1, E |-> 7])

----------------------------------------------------------------------------
(* Composition tracer (services/hierarchy_analysis.py).  trace_ancestors   *)
(* and trace_descendants run as frames on a stack; a step is the code      *)
(* between two awaited store reads, and other requests may change the      *)
(* stores between steps.                                                   *)

\* the names item[0] without 'PTRN|' of the non-empty items whose first
\* symbol starts with 'PTRN|', in the order of the items
parse_pattern_references(pattern_data) ==
    LET refItems == SelectSeq(pattern_data,
                        LAMBDA item : Len(item) > 0 /\ item[1][1] = "PTRN|")
    IN  [i \in 1..Len(refItems) |-> refItems[i][1][2]]

\* int(kb_id.split('_')[0].replace('node', ''))
Level(kb) == kb[2]

get_parent_kb(kb) ==
    IF kb[1] = "node" /\ Level(kb) > 0 THEN Kb(Level(kb) - 1) ELSE NoKb

get_child_kb(kb) ==
    IF kb[1] = "node" /\ Level(kb) < 3 THEN Kb(Level(kb) + 1) ELSE NoKb

\* The kb_ids of the model in the order ORDER BY kb_id gives them:
\* "kb0_x" < "node0_kato" < "node1_kato" < "node1_other" < "node2_kato" < ...
KbOrder == <<(<<"kb", 0, "x">>), Kb(0), Kb(1), (<<"node", 1, "other">>), Kb(2), Kb(3)>>

\* SELECT DISTINCT kb_id ... ORDER BY kb_id
get_kb_ids(c) ==
    SelectSeq(KbOrder, LAMBDA kb : KbRows(c, kb) # {})

\* the first kb, in the order of get_processors_hybrid, that has the pattern
find_pattern_kb(c, pattern_name) ==
    LET holding == SelectSeq(get_kb_ids(c),
                       LAMBDA kb : get_pattern_by_name(c, kb, pattern_name) # NoRow)
    IN  IF holding = <<>> THEN NoKb ELSE holding[1]

\* the limit=100000 of the scan of trace_descendants, scaled to the stores
\* of the model: a partition of more than ScanLimit patterns stands for one of
\* more than 100000
ScanLimit == 2

\* query_patterns(kb, skip=0, limit): ORDER BY length DESC leaves the order
\* of rows of equal length to the store, so every such order is a result;
\* LIMIT keeps its first rows
query_patterns(c, kb, limit) ==
    {[i \in 1..(IF Len(o) < limit THEN Len(o) ELSE limit) |-> c[o[i]]] :
        o \in {q \in Orderings(KbRows(c, kb)) :
                  \A i \in 1..(Len(q) - 1) : c[q[i]].length >= c[q[i + 1]].length}}

\* list.index(x): 0-based position of the first occurrence
Index(s, x) == (CHOOSE i \in 1..Len(s) : s[i] = x /\ \A j \in 1..(i - 1) : s[j] # x) - 1

\* node_id f"{kb_id}:{name}"
NodeId(kb, name) == <<kb, name>>

\* the node dictionary without its display label
Node(kb, name, pattern, frequency) ==
    [id |-> NodeId(kb, name), pattern_name |-> name, kb_id |-> kb,
     level |-> Level(kb), length |-> pattern.length, frequency |-> frequency,
     pattern_data |-> pattern.pattern_data]

Edge(source, target, position) ==
    [source |-> source, target |-> target, position |-> position]

\* a call of trace_ancestors or trace_descendants about to run
Frame(fn, curr_name, curr_kb, depth) ==
    [fn |-> fn, curr_name |-> curr_name, curr_kb |-> curr_kb, depth |-> depth,
     pc |-> "enter", pattern |-> NoRow, items |-> <<>>, i |-> 0]

Top == stack[Len(stack)]

ReplaceTop(s, f) == [s EXCEPT ![Len(s)] = f]

\* a return that leaves the frame in place
ReturnStays(s) == s

\* return: the frame of the call is left
Return(s) == SubSeq(s, 1, Len(s) - 1)

Running == tracing.pc \in {"ancestors", "descendants"}

At(fn, pc) == Running /\ stack # <<>> /\ Top.fn = fn /\ Top.pc = pc

\* an exception leaves trace_pattern_graph: the route answers 500
Raise(fault) ==
    /\ tracing' = [tracing EXCEPT !.pc = "failed", !.fault = fault]
    /\ nodes' = <<>>
    /\ edges' = <<>>
    /\ visited' = {}
    /\ stack' = <<>>

\* the head of trace_ancestors up to the row of the pattern, with the lookup
\* of a pattern that is not there raising instead of returning
trace_ancestors_lookup_raising(c, vis, max_depth, f, fault) ==
    IF f.depth > max_depth \/ f.curr_name \in vis
    THEN [outcome |-> "return", visited |-> vis, pattern |-> NoRow]
    ELSE IF fault # "ok" \/ get_pattern_by_name(c, f.curr_kb, f.curr_name) = NoRow
    THEN [outcome |-> "raise", visited |-> vis \cup {f.curr_name}, pattern |-> NoRow]
    ELSE [outcome |-> "found", visited |-> vis \cup {f.curr_name},
          pattern |-> get_pattern_by_name(c, f.curr_kb, f.curr_name)]

\* the head of trace_ancestors up to the row of the pattern, without the
\* test of the depth
trace_ancestors_lookup_unbounded(c, vis, max_depth, f, fault) ==
    IF f.curr_name \in vis
    THEN [outcome |-> "return", visited |-> vis, pattern |-> NoRow]
    ELSE IF fault # "ok"
    THEN [outcome |-> "raise", visited |-> vis \cup {f.curr_name}, pattern |-> NoRow]
    ELSE IF get_pattern_by_name(c, f.curr_kb, f.curr_name) = NoRow
    THEN [outcome |-> "return", visited |-> vis \cup {f.curr_name}, pattern |-> NoRow]
    ELSE [outcome |-> "found", visited |-> vis \cup {f.curr_name},
          pattern |-> get_pattern_by_name(c, f.curr_kb, f.curr_name)]

\* the head of trace_ancestors up to the row of the pattern
trace_ancestors_lookup(c, vis, max_depth, f, fault) ==
    IF f.depth > max_depth \/ f.curr_name \in vis
    THEN [outcome |-> "return", visited |-> vis, pattern |-> NoRow]
    ELSE IF fault # "ok"
    THEN [outcome |-> "raise", visited |-> vis \cup {f.curr_name}, pattern |-> NoRow]
    ELSE IF get_pattern_by_name(c, f.curr_kb, f.curr_name) = NoRow
    THEN [outcome |-> "return", visited |-> vis \cup {f.curr_name}, pattern |-> NoRow]
    ELSE [outcome |-> "found", visited |-> vis \cup {f.curr_name},
          pattern |-> get_pattern_by_name(c, f.curr_kb, f.curr_name)]

storeVars == <<ch, redis, readOnly, last, nops, listing, memVars>>

\* trace_pattern_graph up to the first call of trace_ancestors; the reads of
\* find_pattern_kb are taken as one read of the store
TraceStart ==
    /\ tracing.pc = "idle"
    /\ \E fault \in Faults :
          LET kb_id == IF tracing.kb_id = NoKb
                       THEN find_pattern_kb(ch, tracing.pattern_name)
                       ELSE tracing.kb_id
          IN  IF tracing.kb_id = NoKb /\ fault # "ok" THEN Raise(fault)
              ELSE /\ tracing' = [tracing EXCEPT
                                     !.pc = IF kb_id = NoKb THEN "not_found"
                                            ELSE "ancestors",
                                     !.origin_kb = kb_id]
                   /\ stack' = IF kb_id = NoKb THEN <<>>
                               ELSE <<Frame("trace_ancestors", tracing.pattern_name,
                                            kb_id, 0)>>
                   /\ nodes' = <<>>
                   /\ edges' = <<>>
                   /\ visited' = {}
    /\ UNCHANGED storeVars

\* trace_ancestors: the depth and visited test, visited.add and the lookup
AncestorsLookup ==
    /\ At("trace_ancestors", "enter")
    /\ \E fault \in Faults :
          LET r == trace_ancestors_lookup(ch, visited, tracing.max_depth, Top, fault)
          IN  IF r.outcome = "raise" THEN Raise(fault)
              ELSE /\ visited' = r.visited
                   /\ stack' = IF r.outcome = "return" THEN Return(stack)
                               ELSE ReplaceTop(stack, [Top EXCEPT !.pattern = r.pattern,
                                                                 !.pc = "frequency"])
                   /\ tracing' = IF r.outcome = "return" /\ r.visited # visited
                                 THEN [tracing EXCEPT !.missing =
                                          @ \cup {NodeId(Top.curr_kb, Top.curr_name)}]
                                 ELSE tracing
                   /\ UNCHANGED <<nodes, edges>>
    /\ UNCHANGED storeVars

\* trace_ancestors: the frequency read, nodes.append and the references
AncestorsNode ==
    /\ At("trace_ancestors", "frequency")
    /\ \E fault \in Faults :
          LET f == Top
              frequency == get_pattern_frequency(redis, f.curr_kb, f.curr_name, fault)
              refs == parse_pattern_references(f.pattern.pattern_data)
          IN  IF fault = "connect" THEN Raise(fault)
              ELSE /\ nodes' = Append(nodes, Node(f.curr_kb, f.curr_name, f.pattern, frequency))
                   /\ stack' = IF refs # <<>> /\ get_parent_kb(f.curr_kb) # NoKb
                               THEN ReplaceTop(stack, [f EXCEPT !.items = refs, !.i = 1,
                                                                !.pc = "loop"])
                               ELSE Return(stack)
                   /\ UNCHANGED <<tracing, edges, visited>>
    /\ UNCHANGED storeVars

\* trace_ancestors: one turn of 'for i, ref in enumerate(refs)' up to the
\* recursive call, or the end of the loop
AncestorsLoop ==
    /\ At("trace_ancestors", "loop")
    /\ LET f == Top
           parent_kb == get_parent_kb(f.curr_kb)
       IN  IF f.i > Len(f.items)
           THEN stack' = Return(stack) /\ UNCHANGED edges
           ELSE /\ edges' = Append(edges, Edge(NodeId(parent_kb, f.items[f.i]),
                                               NodeId(f.curr_kb, f.curr_name), f.i - 1))
                /\ stack' = Append(ReplaceTop(stack, [f EXCEPT !.i = @ + 1]),
                                   Frame("trace_ancestors", f.items[f.i], parent_kb,
                                         f.depth + 1))
    /\ UNCHANGED <<tracing, nodes, visited>>
    /\ UNCHANGED storeVars

\* trace_descendants: the depth test, get_child_kb and the scan of child_kb
DescendantsScan ==
    /\ At("trace_descendants", "enter")
    /\ LET f == Top
           child_kb == get_child_kb(f.curr_kb)
       IN  IF f.depth > tracing.max_depth \/ child_kb = NoKb
           THEN stack' = Return(stack) /\ UNCHANGED tracing
                    /\ UNCHANGED <<nodes, edges, visited>>
           ELSE \E fault \in Faults, all_patterns \in query_patterns(ch, child_kb, ScanLimit) :
                   IF fault # "ok" THEN Raise(fault)
                   ELSE /\ stack' = ReplaceTop(stack, [f EXCEPT !.items = all_patterns,
                                                               !.i = 1, !.pc = "loop"])
                        /\ UNCHANGED <<tracing, nodes, edges, visited>>
    /\ UNCHANGED storeVars

\* trace_descendants: one turn of 'for pattern in all_patterns' up to the
\* frequency read, or the end of the loop
DescendantsLoop ==
    /\ At("trace_descendants", "loop")
    /\ LET f == Top
           child_kb == get_child_kb(f.curr_kb)
           pattern == f.items[f.i]
           refs == parse_pattern_references(pattern.pattern_data)
       IN  IF f.i > Len(f.items)
           THEN stack' = Return(stack) /\ UNCHANGED <<edges, visited>>
           ELSE IF f.curr_name \notin Range(refs)
           THEN stack' = ReplaceTop(stack, [f EXCEPT !.i = @ + 1])
                    /\ UNCHANGED <<edges, visited>>
           ELSE /\ edges' = Append(edges, Edge(NodeId(f.curr_kb, f.curr_name),
                                               NodeId(child_kb, pattern.name),
                                               Index(refs, f.curr_name)))
                /\ visited' = visited \cup {pattern.name}
                /\ stack' = IF pattern.name \in visited
                            THEN ReplaceTop(stack, [f EXCEPT !.i = @ + 1])
                            ELSE ReplaceTop(stack, [f EXCEPT !.pc = "frequency"])
    /\ UNCHANGED <<tracing, nodes>>
    /\ UNCHANGED storeVars

\* trace_descendants: the frequency read, nodes.append and the recursive call
DescendantsNode ==
    /\ At("trace_descendants", "frequency")
    /\ \E fault \in Faults :
          LET f == Top
              child_kb == get_child_kb(f.curr_kb)
              pattern == f.items[f.i]
              frequency == get_pattern_frequency(redis, child_kb, pattern.name, fault)
          IN  IF fault = "connect" THEN Raise(fault)
              ELSE /\ nodes' = Append(nodes, Node(child_kb, pattern.name, pattern, frequency))
                   /\ stack' = Append(ReplaceTop(stack, [f EXCEPT !.i = @ + 1,
                                                                  !.pc = "loop"]),
                                      Frame("trace_descendants", pattern.name, child_kb,
                                            f.depth + 1))
                   /\ UNCHANGED <<tracing, edges, visited>>
    /\ UNCHANGED storeVars

\* trace_pattern_graph after trace_ancestors(pattern_name, kb_id, 0) returned:
\* trace_descendants(pattern_name, kb_id, 1); after that the statistics
TraceAdvance ==
    /\ Running /\ stack = <<>>
    /\ IF tracing.pc = "ancestors"
       THEN /\ stack' = <<Frame("trace_descendants", tracing.pattern_name,
                                tracing.origin_kb, 1)>>
            /\ tracing' = [tracing EXCEPT !.pc = "descendants"]
       ELSE /\ stack' = <<>>
            /\ tracing' = [tracing EXCEPT
                              !.pc = "done",
                              !.statistics = [total_nodes |-> Len(nodes),
                                              total_edges |-> Len(edges),
                                              origin_pattern |-> tracing.pattern_name,
                                              origin_kb |-> tracing.origin_kb]]
    /\ UNCHANGED <<nodes, edges, visited>>
    /\ UNCHANGED storeVars

\* the same request is sent again after its answer
RepeatTrace ==
    /\ tracing.pc = "done"
    /\ tracing.run < MaxRuns
    /\ tracing' = [TraceRequest(tracing.pattern_name, tracing.kb_id,
                                tracing.max_depth, "idle") EXCEPT
                      !.run = tracing.run + 1,
                      !.first = IF tracing.run = 1
                                THEN <<Len(nodes), Len(edges)>> ELSE tracing.first]
    /\ UNCHANGED <<nodes, edges, visited, stack>>
    /\ UNCHANGED storeVars

\* another request deletes a pattern while the trace is running
ConcurrentDelete ==
    /\ Running
    /\ tracing.run = 1
    /\ nops < MaxOps
    /\ \E k \in DOMAIN ch :
          LET res == delete_pattern_hybrid(ch, redis, readOnly, k[1], k[2], "ok", "ok")
          IN  /\ ch' = res.ch
              /\ redis' = res.redis
              /\ last' = [op |-> "delete_pattern_hybrid", kb |-> k[1], name |-> k[2],
                          chFault |-> "ok", redisFault |-> "ok", ro |-> readOnly,
                          ret |-> res.ret,
                          response |-> delete_pattern_from_hybrid(res.ret),
                          existed |-> TRUE]
    /\ nops' = nops + 1
    /\ UNCHANGED <<readOnly, listing, traceVars, memVars>>

----------------------------------------------------------------------------
(* Traces over small stores of the levels node0 .. node3 *)

TraceNames == {"a", "b", "c", "d"}

Tokens == <<<<Tok("t")>>>>

\* pattern_data of a pattern composed of the named patterns
Refs(names) == [i \in 1..Len(names) |-> <<Ref(names[i])>>]

\* Stores as sets of <<level, name, pattern_data>>.
\* a proper hierarchy: every name at one level, every reference resolves
Hierarchy ==
    {<<0, "a", Tokens>>, <<1, "b", Refs(<<"a">>)>>, <<1, "c", Refs(<<"a", "a">>)>>,
     <<2, "d", Refs(<<"b", "c">>)>>}

\* names that recur at every level: references form cycles a -> b -> a and
\* a -> a; d does not exist
Cyclic ==
    {<<0, "a", Refs(<<"b">>)>>, <<1, "a", Refs(<<"a">>)>>, <<1, "b", Refs(<<"a", "d">>)>>,
     <<2, "a", Refs(<<"b">>)>>, <<2, "b", Refs(<<"b", "a">>)>>}

\* a reference to a pattern that does not exist (c)
Dangling ==
    {<<0, "b", Tokens>>, <<1, "a", Refs(<<"c", "b">>)>>, <<2, "d", Refs(<<"a", "a">>)>>}

\* two patterns of equal length use a, and their names recur one level up
Shadowing ==
    {<<0, "a", Tokens>>, <<1, "b", Refs(<<"a">>)>>, <<1, "c", Refs(<<"a">>)>>,
     <<2, "c", Refs(<<"b">>)>>, <<2, "a", Refs(<<"c">>)>>}

\* items that are tokens or empty between the references; a pattern at node3
Mixed ==
    {<<0, "a", Tokens>>,
     <<1, "b", <<<<Tok("t")>>, <<>>, <<Ref("a")>>, <<Ref("a")>>>>>>,
     <<2, "c", Refs(<<"b">>)>>, <<3, "d", Refs(<<"c">>)>>}

\* more patterns at node1 than one scan returns, all composed of a
Wide ==
    {<<0, "a", Tokens>>, <<1, "b", Refs(<<"a">>)>>, <<1, "c", Refs(<<"a">>)>>,
     <<1, "d", Refs(<<"a", "a">>)>>}

TraceStores == {Hierarchy, Cyclic, Dangling, Shadowing, Mixed, Wide, {}}

TraceCh(rows) ==
    [k \in {<<Kb(r[1]), r[2]>> : r \in rows} |->
        Row(k[2], (CHOOSE r \in rows : Kb(r[1]) = k[1] /\ r[2] = k[2])[3])]

\* the frequency key of every pattern, counting its level
TraceRedis(rows) ==
    [k \in {RedisKey(Kb(r[1]), "frequency", r[2]) : r \in rows} |-> Level(k[1]) + 1]

InitTrace ==
    /\ readOnly = FALSE
    /\ \E rows \in TraceStores :
          /\ ch = TraceCh(rows)
          /\ redis = TraceRedis(rows)
    /\ last = NoCall
    /\ nops = 0
    /\ listing = NoListing
    /\ \E pattern_name \in TraceNames, kb_id \in {Kb(0), Kb(1), Kb(2), NoKb},
          max_depth \in 1..MaxDepth :
          tracing = TraceRequest(pattern_name, kb_id, max_depth, "idle")
    /\ nodes = <<>>
    /\ edges = <<>>
    /\ visited = {}
    /\ stack = <<>>
    /\ NoMem

\* the steps of the trace itself
TraceStep ==
    \/ TraceStart
    \/ AncestorsLookup
    \/ AncestorsNode
    \/ AncestorsLoop
    \/ DescendantsScan
    \/ DescendantsLoop
    \/ DescendantsNode
    \/ TraceAdvance

NextTrace ==
    \/ TraceStep
    \/ RepeatTrace
    \/ ConcurrentDelete

\* The event loop resumes the trace whenever the read it awaits has answered.
SpecTrace == InitTrace /\ [][NextTrace]_vars /\ WF_vars(TraceStep)

----------------------------------------------------------------------------
(* Claims about the tracer *)

Ended == tracing.pc \in {"done", "failed", "not_found"}

NodeIds == {nodes[i].id : i \in 1..Len(nodes)}

TraceNodesDistinct ==
    \A i, j \in 1..Len(nodes) : i # j => nodes[i].id # nodes[j].id

\* C8: the nodes of a trace have pairwise different (kb_id, pattern_name), and
\* a trace repeated with the same arguments while no store has changed ends
\* with the node count and the edge count of the first run.
C8_NodesUniqueCountsStable ==
    /\ TraceNodesDistinct
    /\ (tracing.pc = "done" /\ tracing.run = 2 /\ nops = 0)
          => <<Len(nodes), Len(edges)>> = tracing.first

\* C9: every trace request, whatever the store holds (cyclic, self-referential
\* or dangling references) and whatever max_depth, comes to its end: the
\* graph, the not-found answer or the error of a failed store read.
C9_TraceTerminates == (tracing.pc = "idle") ~> Ended

C9_Witness ==
    /\ tracing.pc = "done"
    /\ ch = TraceCh(Cyclic)
    /\ tracing.max_depth = MaxDepth
    /\ tracing.missing # {}
    /\ \E i, j \in 1..Len(nodes) :
          nodes[i].pattern_name = "b" /\ nodes[j].pattern_name = "a"
              /\ nodes[j].level < nodes[i].level

\* the nodes trace_ancestors appended: those not above the origin
AncestorNodes == {n \in Range(nodes) : n.level <= Level(tracing.origin_kb)}

\* C10: a trace fails only when a store read fails, never because a pattern
\* is not there; a pattern that a lookup did not find gets no node; and at the
\* end every node that trace_ancestors appended has the edges of all its
\* references, each of which was followed when the depth allowed it, also
\* when a reference before it had been deleted in the meantime.
C10_MissingPatternEndsBranchOnly ==
    /\ tracing.pc = "failed" => tracing.fault # "ok"
    /\ tracing.missing \cap NodeIds = {}
    /\ tracing.pc = "done" =>
          \A n \in AncestorNodes :
              LET refs == parse_pattern_references(n.pattern_data)
                  parent_kb == get_parent_kb(n.kb_id)
                  depth == Level(tracing.origin_kb) - n.level
              IN  parent_kb # NoKb =>
                      \A j \in 1..Len(refs) :
                          /\ Edge(NodeId(parent_kb, refs[j]), n.id, j - 1) \in Range(edges)
                          /\ depth < tracing.max_depth => refs[j] \in visited

\* d of the hierarchy is traced, b is deleted before its lookup, and the
\* branch through c is in the graph
C10_Witness ==
    /\ tracing.pc = "done"
    /\ nops = 1
    /\ last.op = "delete_pattern_hybrid"
    /\ NodeId(last.kb, last.name) \in tracing.missing
    /\ \E e1, e2 \in Range(edges) :
          /\ e1.source = NodeId(last.kb, last.name)
          /\ e2.target = e1.target
          /\ e2.position > e1.position
          /\ e2.source \in NodeIds
          /\ e2.source # e1.source

----------------------------------------------------------------------------
(* Hierarchy graph engine (hierarchy_analysis.py).  A symbol of a kb is    *)
(* the Redis key <<kb_id, "symbol:freq", symbol>> holding its frequency,   *)
(* with <<kb_id, "symbol:pmf", symbol>> for the pattern member frequency.  *)
(* A coverage ratio is kept as the integer number of ten-thousandths the   *)
(* code returns after round(x, 4).                                         *)

SymbolKeys(r, kb) == {k \in DOMAIN r : k[1] = kb /\ k[2] = "symbol:freq"}

\* get_all_symbols(kb_id): symbol name -> statistics of every symbol of the kb
get_all_symbols(r, kb) ==
    [s \in {k[3] : k \in SymbolKeys(r, kb)} |->
        [frequency |-> r[<<kb, "symbol:freq", s>>],
         pattern_member_frequency |->
             IF <<kb, "symbol:pmf", s>> \in DOMAIN r
             THEN r[<<kb, "symbol:pmf", s>>] ELSE 0]]

\* round(num / den, 4) in ten-thousandths; no quotient of the model lies
\* half way between two ten-thousandths
Round4(num, den) == (2 * 10000 * num + den) \div (2 * den)

\* get_connection_details with the union of the two name sets
get_connection_details_union(c, r, source_kb, target_kb) ==
    LET source_patterns == get_all_pattern_names(c, source_kb)
        target_symbols_data == get_all_symbols(r, target_kb)
        target_symbol_set == DOMAIN target_symbols_data
        source_pattern_set_prefixed == {Ref(p) : p \in Range(source_patterns)}
        connections == source_pattern_set_prefixed \cup target_symbol_set
        connection_count == Cardinality(connections)
    IN  [source_kb |-> source_kb, target_kb |-> target_kb,
         connection_count |-> connection_count,
         coverage_source |-> IF source_patterns # <<>>
                             THEN Round4(connection_count, Len(source_patterns))
                             ELSE 0,
         coverage_target |-> IF target_symbol_set # {}
                             THEN Round4(connection_count, Cardinality(target_symbol_set))
                             ELSE 0,
         sample_connections |-> {}]

\* get_connection_details counting the source names found unprefixed
get_connection_details_unprefixed(c, r, source_kb, target_kb) ==
    LET source_patterns == get_all_pattern_names(c, source_kb)
        target_symbols_data == get_all_symbols(r, target_kb)
        target_symbol_set == DOMAIN target_symbols_data
        connections == {Tok(p) : p \in Range(source_patterns)} \cap target_symbol_set
        connection_count == Cardinality(connections)
    IN  [source_kb |-> source_kb, target_kb |-> target_kb,
         connection_count |-> connection_count,
         coverage_source |-> IF source_patterns # <<>>
                             THEN Round4(connection_count, Len(source_patterns))
                             ELSE 0,
         coverage_target |-> IF target_symbol_set # {}
                             THEN Round4(connection_count, Cardinality(target_symbol_set))
                             ELSE 0,
         sample_connections |-> {}]

\* get_connection_details(source_kb, target_kb): the samples are taken from
\* list(connections), a set, so they are kept as a set; the limits on their
\* number (100, 50) exceed every connection count of the model
get_connection_details(c, r, source_kb, target_kb) ==
    LET source_patterns == get_all_pattern_names(c, source_kb)
        target_symbols_data == get_all_symbols(r, target_kb)
        target_symbol_set == DOMAIN target_symbols_data
        source_pattern_set_prefixed == {Ref(p) : p \in Range(source_patterns)}
        connections == source_pattern_set_prefixed \cap target_symbol_set
        connection_count == Cardinality(connections)
        plain_pattern_names == [s \in connections |-> s[2]]
        source_frequencies ==
            get_patterns_frequencies_batch(r, source_kb,
                SelectSeq(source_patterns, LAMBDA p : Ref(p) \in connections), "ok")
    IN  [source_kb |-> source_kb, target_kb |-> target_kb,
         connection_count |-> connection_count,
         coverage_source |-> IF source_patterns # <<>>
                             THEN Round4(connection_count, Len(source_patterns))
                             ELSE 0,
         coverage_target |-> IF target_symbol_set # {}
                             THEN Round4(connection_count, Cardinality(target_symbol_set))
                             ELSE 0,
         sample_connections |->
             {[pattern_name |-> s,
               frequency_in_source |-> source_frequencies[plain_pattern_names[s]],
               frequency_in_target |-> target_symbols_data[s].frequency] :
                  s \in connections}]

\* extract_level: the N of node{N}_*, 999 for every other kb_id
extract_level(kb) == IF kb[1] = "node" THEN kb[2] ELSE 999

\* get_processors_hybrid: one processor per kb_id, in the order of get_kb_ids
get_processors_hybrid(c) ==
    [i \in 1..Len(get_kb_ids(c)) |->
        [kb_id |-> get_kb_ids(c)[i],
         patterns_count |-> get_pattern_count(c, get_kb_ids(c)[i])]]

\* compute_hierarchy_graph: the processors sorted by level (a stable sort),
\* one node per processor, and an edge for every two processors next to each
\* other in that order that have a connection
compute_hierarchy_graph(c, r) ==
    LET processors == get_processors_hybrid(c)
        kb_ids == [i \in 1..Len(processors) |-> processors[i].kb_id]
        sorted_processors ==
            sorted(kb_ids, [kb \in Range(kb_ids) |-> extract_level(kb)], FALSE)
        graph_nodes ==
            [i \in 1..Len(sorted_processors) |->
                [id |-> sorted_processors[i],
                 level |-> extract_level(sorted_processors[i]),
                 pattern_count |-> get_pattern_count(c, sorted_processors[i])]]
        connection_result(i) ==
            get_connection_details(c, r, sorted_processors[i], sorted_processors[i + 1])
        pairs == [i \in 1..(Len(sorted_processors) - 1) |-> i]
        connected == SelectSeq(pairs, LAMBDA i : connection_result(i).connection_count > 0)
        graph_edges ==
            [j \in 1..Len(connected) |->
                [from |-> sorted_processors[connected[j]],
                 to |-> sorted_processors[connected[j] + 1],
                 connection_count |-> connection_result(connected[j]).connection_count,
                 coverage_source |-> connection_result(connected[j]).coverage_source,
                 coverage_target |-> connection_result(connected[j]).coverage_target]]
    IN  [nodes |-> graph_nodes, edges |-> graph_edges]

\* get_pattern_promotion_path: over the processors sorted by level, a
\* 'pattern' entry for every kb that has the pattern, then a 'symbol' entry
\* for every kb whose symbols hold the name as given; path.sort is stable
get_pattern_promotion_path(c, r, pattern_name) ==
    LET processors == get_processors_hybrid(c)
        kb_ids == [i \in 1..Len(processors) |-> processors[i].kb_id]
        sorted_processors ==
            sorted(kb_ids, [kb \in Range(kb_ids) |-> extract_level(kb)], FALSE)
        holding == SelectSeq(sorted_processors,
                       LAMBDA kb : get_pattern_by_name(c, kb, pattern_name) # NoRow)
        using == SelectSeq(sorted_processors,
                     LAMBDA kb : Tok(pattern_name) \in DOMAIN get_all_symbols(r, kb))
        patterns == [i \in 1..Len(holding) |->
                        [level |-> extract_level(holding[i]), kb_id |-> holding[i],
                         role |-> "pattern",
                         frequency |-> get_pattern_frequency(r, holding[i],
                                                             pattern_name, "ok")]]
        symbols == [i \in 1..Len(using) |->
                       [level |-> extract_level(using[i]), kb_id |-> using[i],
                        role |-> "symbol",
                        frequency |-> get_all_symbols(r, using[i])[Tok(pattern_name)].frequency]]
        path == patterns \o symbols
    IN  [pattern_name |-> pattern_name,
         origin_kb |-> IF holding = <<>> THEN NoKb ELSE holding[1],
         path |-> sorted(path, [e \in Range(path) |-> e.level], FALSE)]

----------------------------------------------------------------------------
(* The hierarchy specification: stores with patterns in the kbs of a       *)
(* layout and symbols in every kb, and the two read operations of the      *)
(* graph engine.                                                           *)

HierKbs == {Kb(0), Kb(1), <<"node", 1, "other">>, Kb(2), <<"kb", 0, "x">>}

HierLayouts ==
    {{}, {Kb(0)}, {Kb(0), Kb(1)}, {Kb(0), Kb(2)}, {Kb(0), Kb(1), Kb(2)},
     {Kb(0), Kb(1), <<"node", 1, "other">>}, {Kb(0), <<"kb", 0, "x">>},
     {Kb(1), <<"kb", 0, "x">>, Kb(2)}}

HierPatternSets == {{"aaa"}, {"aaa", "bbb"}, {"bbb", "ccc"}, {"aaa", "bbb", "ccc"}}

HierSymbolSets ==
    {{}, {Ref("aaa"), Tok("zzz")}, {Tok("aaa"), Tok("zzz")},
     {Ref("aaa"), Ref("bbb"), Tok("zzz")}, {Ref("aaa"), Ref("bbb"), Ref("ccc")},
     {Ref("aaa"), Ref("bbb"), Ref("ccc"), Ref("ddd")}}

HierCh(layout, names) ==
    [k \in {<<kb, n>> : kb \in layout, n \in names} |-> Row(k[2], <<<<Tok("t")>>>>)]

HierRedis(layout, names, symbols) ==
    [k \in {RedisKey(kb, "frequency", n) : kb \in layout, n \in names}
           \cup {RedisKey(kb, "symbol:freq", s) : kb \in HierKbs, s \in symbols} |->
        IF k[2] = "frequency" THEN 2 ELSE 5]

InitHier ==
    /\ readOnly = FALSE
    /\ \E layout \in HierLayouts, names \in HierPatternSets, symbols \in HierSymbolSets :
          /\ ch = HierCh(layout, names)
          /\ redis = HierRedis(layout, names, symbols)
    /\ last = NoCall
    /\ nops = 0
    /\ listing = NoListing
    /\ NoTrace

ConnectionDetails ==
    \E source_kb \in HierKbs, target_kb \in HierKbs :
        Called(ch, redis,
               [op |-> "get_connection_details",
                source_kb |-> source_kb, target_kb |-> target_kb,
                ret |-> get_connection_details(ch, redis, source_kb, target_kb)])

HierarchyGraph ==
    Called(ch, redis,
           [op |-> "compute_hierarchy_graph", ret |-> compute_hierarchy_graph(ch, redis)])

PromotionPath ==
    \E pattern_name \in {"aaa", "bbb", "ddd"} :
        Called(ch, redis,
               [op |-> "get_pattern_promotion_path", pattern_name |-> pattern_name,
                ret |-> get_pattern_promotion_path(ch, redis, pattern_name)])

NextHier == ConnectionDetails \/ HierarchyGraph \/ PromotionPath

SpecHier == InitHier /\ [][NextHier]_vars

----------------------------------------------------------------------------
(* Claims about the hierarchy graph engine (SpecHier) *)

\* C11: get_connection_details returns a connection_count that is at most the
\* number of patterns of the source and at most the number of symbols of the
\* target, and two coverage ratios between 0 and 1, also for a source without
\* patterns or a target without symbols.
C11_ConnectionBounds ==
    IsCall("get_connection_details") =>
        /\ last.ret.connection_count <= Cardinality(KbRows(ch, last.source_kb))
        /\ last.ret.connection_count <= Cardinality(SymbolKeys(redis, last.target_kb))
        /\ last.ret.coverage_source \in 0..10000
        /\ last.ret.coverage_target \in 0..10000

\* a source without patterns against a target with symbols
C11_Witness ==
    /\ IsCall("get_connection_details")
    /\ KbRows(ch, last.source_kb) = {}
    /\ SymbolKeys(redis, last.target_kb) # {}
    /\ last.ret.coverage_source = 0

\* the source names whose PTRN|-prefixed form is a symbol name of the target
Connected(source_kb, target_kb) ==
    {k[2] : k \in {q \in KbRows(ch, source_kb) :
                      <<target_kb, "symbol:freq", Ref(q[2])>> \in DOMAIN redis}}

\* cov is the number of ten-thousandths nearest to num / den
NearestTenThousandth(cov, num, den) ==
    /\ 2 * (cov * den - 10000 * num) <= den
    /\ 2 * (10000 * num - cov * den) <= den

\* C12 as stated: connection_count is the number of source pattern names whose
\* marker-prefixed form is a symbol name of the target, and the coverages are
\* exactly connection_count / (number of source patterns) and
\* connection_count / (number of target symbols), e.g. 1/3 and 1/2.
C12_CoverageIsExactQuotient ==
    IsCall("get_connection_details") =>
        LET n == Cardinality(KbRows(ch, last.source_kb))
            m == Cardinality(SymbolKeys(redis, last.target_kb))
            count == Cardinality(Connected(last.source_kb, last.target_kb))
        IN  /\ last.ret.connection_count = count
            /\ n > 0 => last.ret.coverage_source * n = 10000 * count
            /\ m > 0 => last.ret.coverage_target * m = 10000 * count

\* C12 (amended): connection_count is the number of source pattern names whose
\* marker-prefixed form is a symbol name of the target, and each coverage is
\* the quotient rounded to four decimals (0.3333 for 1/3), 0 when the
\* denominator is 0.
C12_CoverageIsRoundedQuotient ==
    IsCall("get_connection_details") =>
        LET n == Cardinality(KbRows(ch, last.source_kb))
            m == Cardinality(SymbolKeys(redis, last.target_kb))
            count == Cardinality(Connected(last.source_kb, last.target_kb))
        IN  /\ last.ret.connection_count = count
            /\ IF n > 0 THEN NearestTenThousandth(last.ret.coverage_source, count, n)
               ELSE last.ret.coverage_source = 0
            /\ IF m > 0 THEN NearestTenThousandth(last.ret.coverage_target, count, m)
               ELSE last.ret.coverage_target = 0

\* the example: patterns {aaa, bbb, ccc} against symbols {PTRN|aaa, zzz}
C12_Witness ==
    /\ IsCall("get_connection_details")
    /\ {k[2] : k \in KbRows(ch, last.source_kb)} = {"aaa", "bbb", "ccc"}
    /\ {k[3] : k \in SymbolKeys(redis, last.target_kb)} = {Ref("aaa"), Tok("zzz")}
    /\ last.ret.connection_count = 1
    /\ last.ret.coverage_source = 3333
    /\ last.ret.coverage_target = 5000

----------------------------------------------------------------------------
(* The tie order of the frequency listing (SpecList) *)

\* o keeps names of equal stored frequency in ascending order of name
TieOrdered(o, kb) ==
    \A i \in 1..(Len(o) - 1) :
        StoredFrequency(kb, o[i]) = StoredFrequency(kb, o[i + 1])
            => Index(NameOrder, o[i]) < Index(NameOrder, o[i + 1])

----------------------------------------------------------------------------
(* The pattern detail specification: the routes GET and PUT of one         *)
(* pattern, on stores as the ingesting process leaves them.                *)

\* the rows an initial store may hold next to the row <<Kb(1), "a">>
DetailKeys == {<<Kb(0), "a">>, <<Kb(0), "b">>}

\* request bodies of PUT: valid fields, values of a wrong type, fields the
\* repository does not store
UpdateRequests ==
    {<<>>,
     [frequency |-> <<"int", 7>>],
     [frequency |-> <<"int", -1>>],
     [frequency |-> <<"str", "x">>],
     [emotives |-> <<"dict", "doc1">>, metadata |-> <<"dict", "doc1">>],
     [emotives |-> <<"list", "doc1">>],
     [pattern_data |-> <<"list", "z">>],
     [frequency |-> <<"int", 7>>, pattern_data |-> <<"list", "z">>]}

\* <<fault of the reads, fault of the writes>> of one PUT
RequestFaults ==
    {<<NoFault, NoFault>>,
     <<[connect |-> FALSE, failing |-> {"frequency"}], NoFault>>,
     <<NoFault, [connect |-> FALSE, failing |-> {"frequency"}]>>,
     <<[connect |-> TRUE, failing |-> {}], NoFault>>,
     <<NoFault, [connect |-> TRUE, failing |-> {}]>>}

\* what the emotives and metadata keys of <<Kb(1), "a">> may hold: the JSON
\* of a list, the JSON of a dict, the JSON of a number, a string that is not JSON
StoredPayloads ==
    {JsonDumps(<<"list", "doc0">>), JsonDumps(<<"dict", "doc0">>),
     JsonDumps(<<"int", 5>>), <<"text", "{oops">>}

InitDetail ==
    /\ readOnly \in BOOLEAN
    /\ \E present \in SUBSET DetailKeys, payload \in StoredPayloads :
          /\ ch = SpecCh(present \cup {<<Kb(1), "a">>})
          /\ redis = [k \in {RedisKey(Kb(1), "emotives", "a"),
                              RedisKey(Kb(1), "metadata", "a")} |-> payload]
                         @@ SpecRedis(present \cup {<<Kb(1), "a">>})
    /\ last = NoCall
    /\ nops = 0
    /\ listing = NoListing
    /\ NoTrace

GetPatternDetail ==
    \E kb \in SpecKbs, name \in Names, fault \in UpdateFaults :
        Called(ch, redis,
               [op |-> "get_pattern_detail", kb |-> kb, name |-> name,
                fault |-> fault,
                response |-> get_pattern_detail(ch, redis, kb, name, fault)])

UpdatePatternRequest ==
    \E kb \in SpecKbs, name \in Names, request \in UpdateRequests, fp \in RequestFaults :
        LET res == update_pattern(ch, redis, readOnly, kb, name, request, fp[1], fp[2])
        IN  Called(res.ch, res.redis,
                   [op |-> "update_pattern", kb |-> kb, name |-> name,
                    request |-> request, faults |-> fp, ro |-> readOnly,
                    response |-> res.response])

\* the two JSON getters of the Redis adapter, called directly
RedisAdapterGet ==
    \E kb \in SpecKbs, name \in Names, fault \in {"ok", "command"} :
        \/ Called(ch, redis,
                  [op |-> "get_pattern_emotives", kb |-> kb, name |-> name,
                   fault |-> fault,
                   ret |-> get_pattern_emotives(redis, kb, name, fault)])
        \/ Called(ch, redis,
                  [op |-> "get_pattern_metadata", kb |-> kb, name |-> name,
                   fault |-> fault,
                   ret |-> get_pattern_metadata(redis, kb, name, fault)])

NextDetail == GetPatternDetail \/ UpdatePatternRequest \/ RedisAdapterGet

SpecDetail == InitDetail /\ [][NextDetail]_vars

----------------------------------------------------------------------------
(* Claims about the pattern detail routes and updatePattern *)

\* C14: an update whose payload holds a field other than frequency, emotives
\* and metadata is rejected (ValidationError, HTTP 400) and never answered as
\* a successful update.
C14_UnsupportedFieldRejected ==
    (IsCall("update_pattern") /\ DOMAIN last.request \ KindSet # {}) =>
        last.response.status # 200

\* C15: when getPattern finds the ClickHouse row and a Redis read of the
\* pattern (frequency, emotives or metadata) fails, the answer carries an
\* explicit error indication: it is not a plain pattern whose frequency 0,
\* empty emotives or empty metadata look like stored values.
C15_MetadataReadFailureIndicated ==
    (/\ IsCall("get_pattern_detail")
     /\ <<last.kb, last.name>> \in DOMAIN ch
     /\ (last.fault.connect \/ last.fault.failing # {})) =>
        (last.response.status = 200 => "error" \in DOMAIN last.response.body)

\* C16: an updatePattern that reports success has written every requested
\* field (frequency, emotives, metadata) to Redis; a write that fails or is
\* rejected makes the call report failure.
C16_UpdateSuccessMeansWritten ==
    (IsCall("update_pattern_hybrid") /\ last.ret) =>
        \A kind \in DOMAIN last.updates \cap KindSet :
            /\ RedisKey(last.kb, kind, last.name) \in DOMAIN redis
            /\ redis[RedisKey(last.kb, kind, last.name)] =
                  IF kind = "frequency" THEN last.updates[kind]
                  ELSE JsonDumps(last.updates[kind])

----------------------------------------------------------------------------
(* Claims about the edges and the depth of a trace (SpecTrace) *)

\* the item is a reference: its first symbol starts with 'PTRN|'
IsReference(item) == Len(item) > 0 /\ item[1][1] = "PTRN|"

\* the 0-based slot indexes of pattern_data whose item refers to name
SlotsOf(pattern_data, name) ==
    {s - 1 : s \in {t \in 1..Len(pattern_data) :
                       IsReference(pattern_data[t]) /\ pattern_data[t][1][2] = name}}

\* the nodes trace_descendants looks for users of: the origin and the nodes
\* above it that are less than max_depth levels away
ExpandedNodes ==
    {n \in Range(nodes) :
        /\ n.level >= Level(tracing.origin_kb)
        /\ n.level - Level(tracing.origin_kb) < tracing.max_depth}

\* C17: at the end of a trace every node of the backward pass has, for each
\* reference in its pattern_data, an edge from the referenced name in the kb
\* one level lower to the node, whose position is the 0-based slot index of
\* pattern_data holding that reference; and tracing b at node1, whose
\* pattern_data refers to a at node0, gives the backward pass exactly the nodes
\* b and a and the one edge a -> b at position 0.
C17_BackwardEdgesAtSlotIndex ==
    tracing.pc = "done" =>
        /\ \A n \in AncestorNodes :
              get_parent_kb(n.kb_id) # NoKb =>
                  \A s \in 1..Len(n.pattern_data) :
                      IsReference(n.pattern_data[s]) =>
                          Edge(NodeId(get_parent_kb(n.kb_id), n.pattern_data[s][1][2]),
                               n.id, s - 1) \in Range(edges)
        /\ (ch = TraceCh(Hierarchy) /\ tracing.pattern_name = "b"
               /\ tracing.origin_kb = Kb(1)) =>
              /\ {n.id : n \in AncestorNodes} = {NodeId(Kb(1), "b"), NodeId(Kb(0), "a")}
              /\ {e \in Range(edges) : e.target = NodeId(Kb(1), "b")}
                    = {Edge(NodeId(Kb(0), "a"), NodeId(Kb(1), "b"), 0)}

\* C18: at the end of a trace during which no store changed, for every node
\* the forward pass expands and every pattern of the kb one level higher
\* whose references include the node's name, there is an edge from the node to
\* that pattern whose position is a slot index of pattern_data holding the
\* reference: no pattern of that kb is missed, however many it holds.
C18_ForwardEdgesToEveryUser ==
    (tracing.pc = "done" /\ nops = 0) =>
        \A n \in ExpandedNodes :
            get_child_kb(n.kb_id) # NoKb =>
                \A k \in KbRows(ch, get_child_kb(n.kb_id)) :
                    SlotsOf(ch[k].pattern_data, n.pattern_name) # {} =>
                        \E s \in SlotsOf(ch[k].pattern_data, n.pattern_name) :
                            Edge(n.id, NodeId(k[1], k[2]), s) \in Range(edges)

\* C19: no node of a trace is more than max_depth reference steps from the
\* origin; a reference step leads to the kb one level lower, a use to the kb
\* one level higher, so the steps between a node and the origin are the
\* difference of their levels.
C19_NodesWithinMaxDepth ==
    (Running \/ tracing.pc = "done") =>
        \A n \in Range(nodes) :
            /\ n.level - Level(tracing.origin_kb) <= tracing.max_depth
            /\ Level(tracing.origin_kb) - n.level <= tracing.max_depth

\* c at node2 traced with max_depth 1: b one level down and d one level up
\* are nodes, a two levels down is stored and referenced by b but is no node
C19_Witness ==
    /\ tracing.pc = "done"
    /\ ch = TraceCh(Mixed)
    /\ tracing.pattern_name = "c"
    /\ tracing.origin_kb = Kb(2)
    /\ tracing.max_depth = 1
    /\ NodeIds = {NodeId(Kb(2), "c"), NodeId(Kb(1), "b"), NodeId(Kb(3), "d")}

----------------------------------------------------------------------------
(* The hierarchy graph (SpecHier) *)

\* C20: in the graph of compute_hierarchy_graph the nodes are listed in
\* ascending order of level and every edge leads from a kb of some level L to
\* a kb of level L + 1, whatever kb_ids the store holds (levels with gaps,
\* several kbs at one level, names outside node{N}_*).
C20_EdgesJoinConsecutiveLevels ==
    IsCall("compute_hierarchy_graph") =>
        /\ \A i \in 1..(Len(last.ret.nodes) - 1) :
              last.ret.nodes[i].level <= last.ret.nodes[i + 1].level
        /\ \A i \in 1..Len(last.ret.edges) :
              extract_level(last.ret.edges[i].to)
                  = extract_level(last.ret.edges[i].from) + 1

\* C21: the path of get_pattern_promotion_path is in ascending order of
\* level, has a 'pattern' entry for exactly the kbs that hold the name as a
\* pattern, the lowest of them being the origin, has a 'symbol' entry for
\* every kb above the origin's level whose symbols hold the name, and has no
\* 'symbol' entry for a kb at or below the origin's level.
C21_PromotionPathAboveOrigin ==
    IsCall("get_pattern_promotion_path") =>
        LET path == last.ret.path
            entries == Range(path)
            holders == {kb \in Range(get_kb_ids(ch)) :
                           <<kb, last.pattern_name>> \in DOMAIN ch}
        IN  /\ \A i \in 1..(Len(path) - 1) : path[i].level <= path[i + 1].level
            /\ {e.kb_id : e \in {x \in entries : x.role = "pattern"}} = holders
            /\ holders # {} =>
                  /\ last.ret.origin_kb \in holders
                  /\ \A kb \in holders :
                        extract_level(last.ret.origin_kb) <= extract_level(kb)
                  /\ \A kb \in Range(get_kb_ids(ch)) :
                        (/\ extract_level(kb) > extract_level(last.ret.origin_kb)
                         /\ <<kb, "symbol:freq", Tok(last.pattern_name)>> \in DOMAIN redis)
                            => \E e \in entries : e.role = "symbol" /\ e.kb_id = kb
                  /\ \A e \in entries :
                        e.role = "symbol" =>
                            e.level > extract_level(last.ret.origin_kb)

----------------------------------------------------------------------------
(* Symbol statistics cache (symbol_stats.py).  The value of a symbol key   *)
(* is the integer Redis holds as a string; a ratio is kept as the integer  *)
(* number of hundredths the code returns after round(x, 2).  A symbol name *)
(* is the token's text.                                                    *)

CACHE_TTL_SECONDS == 300

\* stands for 100000: the most symbol keys one load keeps
MAX_SYMBOLS_TO_LOAD == 2

MaxNow == 300

MaxFreq == 2

\* the characters of the names and search terms in use
Letters ==
    [n \in {"A", "aaa", "b", "aa"} |->
        CASE n = "A" -> <<"A">>
          [] n = "aaa" -> <<"a", "a", "a">>
          [] n = "b" -> <<"b">>
          [] n = "aa" -> <<"a", "a">>]

\* str.lower()
lower(chars) == [i \in 1..Len(chars) |-> IF chars[i] = "A" THEN "a" ELSE chars[i]]

\* needle in hay, of two strings
StrIn(needle, hay) ==
    \E i \in 0..(Len(hay) - Len(needle)) : SubSeq(hay, i + 1, i + Len(needle)) = needle

\* round(num / den, 2) in hundredths; no quotient of the model lies half way
\* between two hundredths
Round2(num, den) == (2 * 100 * num + den) \div (2 * den)

\* the dictionary appended for one symbol; a value that is missing is None
SymbolStat(r, kb_id, symbol_name) ==
    LET freq_key == <<kb_id, "symbol:freq", Tok(symbol_name)>>
        pmf_key == <<kb_id, "symbol:pmf", Tok(symbol_name)>>
        freq == IF freq_key \in DOMAIN r THEN r[freq_key] ELSE 0
        pmf == IF pmf_key \in DOMAIN r THEN r[pmf_key] ELSE 0
    IN  [name |-> symbol_name,
         frequency |-> freq,
         pattern_member_frequency |-> pmf,
         freq_pmf_ratio |-> IF pmf > 0 THEN Round2(freq, pmf) ELSE 0]

\* the cache check: the kb has an entry younger than the time-to-live
Fresh(cache, kb_id, t) ==
    kb_id \in DOMAIN cache /\ t - cache[kb_id].timestamp < CACHE_TTL_SECONDS

LoadRes(raised, symbols, cache, scanned) ==
    [raised |-> raised, symbols |-> symbols, cache |-> cache, scanned |-> scanned]

\* _load_all_symbols with a cache entry that is still fresh at the moment the
\* time-to-live has elapsed
_load_all_symbols_inclusive(cache, r, kb_id, t, scan, fault) ==
    IF kb_id \in DOMAIN cache /\ t - cache[kb_id].timestamp <= CACHE_TTL_SECONDS
    THEN LoadRes(FALSE, cache[kb_id].symbols, cache, FALSE)
    ELSE IF fault = "connect"
    THEN LoadRes(TRUE, <<>>, cache, FALSE)
    ELSE LET symbol_keys == Slice(scan, 0, MAX_SYMBOLS_TO_LOAD)
             symbols == [i \in 1..Len(symbol_keys) |->
                            SymbolStat(r, kb_id, symbol_keys[i][3][1])]
         IN  LoadRes(FALSE, symbols,
                     Put(cache, kb_id, [symbols |-> symbols, timestamp |-> t]), TRUE)

\* _load_all_symbols(kb_id) called at time t; scan is the order in which SCAN
\* yields the kb's symbol keys.  The result names the list object the
\* caller gets: the cached one on a hit, the newly cached one otherwise.
_load_all_symbols(cache, r, kb_id, t, scan, fault) ==
    IF Fresh(cache, kb_id, t)
    THEN LoadRes(FALSE, cache[kb_id].symbols, cache, FALSE)
    ELSE IF fault = "connect"
    THEN LoadRes(TRUE, <<>>, cache, FALSE)
    ELSE LET symbol_keys == Slice(scan, 0, MAX_SYMBOLS_TO_LOAD)
             symbols == [i \in 1..Len(symbol_keys) |->
                            SymbolStat(r, kb_id, symbol_keys[i][3][1])]
         IN  LoadRes(FALSE, symbols,
                     Put(cache, kb_id, [symbols |-> symbols, timestamp |-> t]), TRUE)

SortFields == {"frequency", "pmf", "pattern_member_frequency", "name", "ratio",
               "freq_pmf_ratio"}

\* the key of list.sort for sort_by
SortKey(s, sort_by) ==
    CASE sort_by = "frequency" -> s.frequency
      [] sort_by \in {"pmf", "pattern_member_frequency"} -> s.pattern_member_frequency
      [] sort_by = "name" -> Index(NameOrder, s.name)
      [] sort_by \in {"ratio", "freq_pmf_ratio"} -> s.freq_pmf_ratio

\* get_symbols_paginated; search = "" is no search.  Without a search term
\* `symbols` is the cached list itself and list.sort reorders it in place,
\* so the cache holds the sorted list afterwards.
get_symbols_paginated(cache, r, kb_id, skip, limit, sort_by, sort_order, search, t, scan, fault) ==
    LET loaded == _load_all_symbols(cache, r, kb_id, t, scan, fault)
        all_symbols == loaded.symbols
        filtered ==
            IF search # ""
            THEN SelectSeq(all_symbols,
                           LAMBDA s : StrIn(lower(Letters[search]), lower(Letters[s.name])))
            ELSE all_symbols
        symbols ==
            IF sort_by \in SortFields
            THEN sorted(filtered, [s \in Range(filtered) |-> SortKey(s, sort_by)],
                        sort_order = -1)
            ELSE filtered
        total == Len(symbols)
        paginated_symbols == Slice(symbols, skip, skip + limit)
    IN  IF loaded.raised
        THEN [ret |-> [kb_id |-> kb_id, symbols |-> <<>>, total |-> 0, skip |-> skip,
                       limit |-> limit, has_more |-> FALSE, error |-> TRUE],
              cache |-> loaded.cache, scanned |-> loaded.scanned]
        ELSE [ret |-> [kb_id |-> kb_id, symbols |-> paginated_symbols, total |-> total,
                       skip |-> skip, limit |-> limit,
                       has_more |-> (skip + Len(paginated_symbols)) < total,
                       error |-> FALSE],
              cache |-> IF search # "" THEN loaded.cache
                        ELSE Put(loaded.cache, kb_id,
                                 [symbols |-> symbols,
                                  timestamp |-> loaded.cache[kb_id].timestamp]),
              scanned |-> loaded.scanned]

\* the symbols of the two kbs: two in kato's node0, one in node1
SymNames == {"A", "b"}

SymRedis(freq) ==
    [k \in {<<Kb(0), "symbol:freq", Tok(n)>> : n \in SymNames}
           \cup {<<Kb(0), "symbol:pmf", Tok("A")>>, <<Kb(1), "symbol:freq", Tok("aaa")>>,
                 <<Kb(1), "symbol:pmf", Tok("aaa")>>} |->
        IF k[1] = Kb(0) /\ k[2] = "symbol:freq" THEN freq[k[3][1]]
        ELSE IF k[2] = "symbol:pmf" THEN 2 ELSE 1]

InitSym ==
    /\ readOnly = FALSE
    /\ ch = <<>>
    /\ redis = SymRedis([n \in SymNames |-> 1])
    /\ last = NoCall
    /\ nops = 0
    /\ listing = NoListing
    /\ NoTrace

\* time passes
Tick ==
    /\ \E d \in {CACHE_TTL_SECONDS - 1, CACHE_TTL_SECONDS} :
          /\ now + d <= MaxNow
          /\ now' = now + d
    /\ UNCHANGED <<ch, redis, readOnly, last, nops, listing, traceVars, _symbol_cache,
                   _alert_cooldowns, wsVars>>

\* KATO counts one more occurrence of the symbol A
IngestSymbol ==
    /\ \E k \in {<<Kb(0), "symbol:freq", Tok("A")>>} :
          /\ redis[k] < MaxFreq
          /\ redis' = Put(redis, k, redis[k] + 1)
    /\ UNCHANGED <<ch, readOnly, last, nops, listing, traceVars, memVars>>

GetSymbols ==
    /\ \E kb_id \in {Kb(0), Kb(1)}, skip \in 0..1, limit \in 1..2,
          sort_by \in {"frequency", "name"}, sort_order \in {-1, 1},
          search \in {"", "A"} :
          \E fault \in IF Fresh(_symbol_cache, kb_id, now) THEN {"ok"}
                        ELSE {"ok", "connect"},
             scan \in IF Fresh(_symbol_cache, kb_id, now) THEN {<<>>}
                       ELSE Orderings(SymbolKeys(redis, kb_id)) :
             LET res == get_symbols_paginated(_symbol_cache, redis, kb_id, skip, limit,
                                              sort_by, sort_order, search, now, scan,
                                              fault)
             IN  /\ last' = [op |-> "get_symbols_paginated", kb_id |-> kb_id,
                             sort_by |-> sort_by, sort_order |-> sort_order,
                             search |-> search,
                             scanned |-> res.scanned, ret |-> res.ret]
                 /\ _symbol_cache' = res.cache
    /\ UNCHANGED <<ch, redis, readOnly, nops, listing, traceVars, now,
                   _alert_cooldowns, wsVars>>

NextSym == Tick \/ IngestSymbol \/ GetSymbols

SpecSym == InitSym /\ [][NextSym]_vars

\* a step of get_symbols_paginated
SymbolsCalled ==
    /\ last'.op = "get_symbols_paginated"
    /\ <<last', _symbol_cache'>> # <<last, _symbol_cache>>

\* the symbols of a snapshot a search term lets through
Matching(symbols, search) ==
    {s \in Range(symbols) :
        search = "" \/ StrIn(lower(Letters[search]), lower(Letters[s.name]))}

\* what the call returned is a page of the snapshot
AnsweredFrom(call, symbols) ==
    /\ Range(call.ret.symbols) \subseteq Matching(symbols, call.search)
    /\ call.ret.total = Cardinality(Matching(symbols, call.search))

\* C22: a get_symbols_paginated call for a kb whose snapshot was loaded less
\* than 300 s ago is answered from that snapshot without a scan and leaves
\* the snapshot's contents and load time alone; a call with no entry, or with
\* one loaded 300 s ago or more, scans the store and (unless the store is
\* unreachable) replaces the kb's snapshot by what the store holds now,
\* loaded at the time of the call; the entries of the other kbs stay as they are.
C22_CacheServesWithinTtl ==
    [][SymbolsCalled =>
          LET kb == last'.kb_id
              old == _symbol_cache
              new == _symbol_cache'
              hit == kb \in DOMAIN old /\ now - old[kb].timestamp < 300
              stored == {SymbolStat(redis, kb, k[3][1]) : k \in SymbolKeys(redis, kb)}
          IN  /\ hit =>
                    /\ ~last'.scanned
                    /\ ~last'.ret.error
                    /\ new[kb].timestamp = old[kb].timestamp
                    /\ Range(new[kb].symbols) = Range(old[kb].symbols)
                    /\ AnsweredFrom(last', old[kb].symbols)
              /\ (~hit /\ ~last'.ret.error) =>
                    /\ last'.scanned
                    /\ kb \in DOMAIN new
                    /\ new[kb].timestamp = now
                    /\ Range(new[kb].symbols) \subseteq stored
                    /\ Len(new[kb].symbols) =
                           IF Cardinality(stored) < MAX_SYMBOLS_TO_LOAD
                           THEN Cardinality(stored) ELSE MAX_SYMBOLS_TO_LOAD
                    /\ AnsweredFrom(last', new[kb].symbols)
              /\ DOMAIN new \subseteq DOMAIN old \cup {kb}
              /\ \A other \in DOMAIN old \ {kb} :
                    other \in DOMAIN new /\ new[other] = old[other]]_vars

\* a call was answered, 299 s after the load, from a snapshot of kato's node0
\* that is older than what the store holds, node1 having a snapshot of its own
C22_Witness ==
    /\ last.op = "get_symbols_paginated"
    /\ last.kb_id = Kb(0)
    /\ ~last.scanned
    /\ ~last.ret.error
    /\ \E i \in 1..Len(last.ret.symbols) :
          /\ last.ret.symbols[i].name = "A"
          /\ last.ret.symbols[i].frequency # redis[<<Kb(0), "symbol:freq", Tok("A")>>]
    /\ now - _symbol_cache[Kb(0)].timestamp = CACHE_TTL_SECONDS - 1
    /\ Kb(1) \in DOMAIN _symbol_cache

\* C28: a get_symbols_paginated call answered from the cache leaves the
\* cached snapshot as it was, the order of its symbols included, so that the
\* result of a later call (which orders symbols of equal sort key as the
\* snapshot holds them) does not depend on the calls made in between.
C28_CallsLeaveSnapshotAlone ==
    [][(/\ SymbolsCalled
        /\ last'.kb_id \in DOMAIN _symbol_cache
        /\ now - _symbol_cache[last'.kb_id].timestamp < 300)
           => _symbol_cache'[last'.kb_id].symbols
                  = _symbol_cache[last'.kb_id].symbols]_vars

\* C23: the counts bulk_delete_patterns_hybrid and delete_knowledgebase_hybrid
\* return are what the call removed: clickhouse_deleted is the number of rows
\* gone from ClickHouse and redis_keys_deleted the number of keys gone from
\* Redis, also when a named pattern does not exist or one store's delete fails.
C23_CountsAreWhatWasRemoved ==
    [][(/\ nops' = nops + 1
        /\ last'.op \in {"bulk_delete_patterns_hybrid", "delete_knowledgebase_hybrid"})
           => /\ last'.ret.clickhouse_deleted = Cardinality(DOMAIN ch \ DOMAIN ch')
              /\ last'.ret.redis_keys_deleted
                     = Cardinality(DOMAIN redis \ DOMAIN redis')]_vars

\* the stores restricted to what a call does not address: the rows and keys of
\* the other kbs and, for a call that names patterns, of the kb's other patterns
Untouched(f, call) ==
    Restrict(f, {k \in DOMAIN f :
                    \/ k[1] # call.kb
                    \/ "name" \in DOMAIN call /\ k[Len(k)] # call.name
                    \/ "names" \in DOMAIN call /\ k[Len(k)] \notin Range(call.names)})

BadPayload(r, key, type) ==
    /\ key \in DOMAIN r
    /\ (~IsJson(r[key]) \/ r[key][2][1] # type)

\* C25: get_pattern_emotives returns [] and get_pattern_metadata returns {}
\* when the stored string is malformed JSON or JSON of the wrong type; the
\* call returns a value and raises nothing.
C25_MalformedPayloadDegrades ==
    /\ (/\ IsCall("get_pattern_emotives")
        /\ last.fault = "ok"
        /\ BadPayload(redis, RedisKey(last.kb, "emotives", last.name), "list"))
           => last.ret = EmptyList
    /\ (/\ IsCall("get_pattern_metadata")
        /\ last.fault = "ok"
        /\ BadPayload(redis, RedisKey(last.kb, "metadata", last.name), "dict"))
           => last.ret = EmptyDict

\* get_pattern_emotives was called on a key that holds the JSON of a dict
C25_Witness ==
    /\ IsCall("get_pattern_emotives")
    /\ last.fault = "ok"
    /\ last.kb = Kb(1)
    /\ last.name = "a"
    /\ redis[RedisKey(Kb(1), "emotives", "a")] = JsonDumps(<<"dict", "doc0">>)
    /\ last.ret = EmptyList

----------------------------------------------------------------------------
(* Alert manager (alert_manager.py).  Percentages are whole numbers and    *)
(* the error rate is in hundredths; an alert dictionary is kept with its   *)
(* type and, for a container, the container's name and status.             *)

\* settings.alert_cpu_threshold, alert_memory_threshold,
\* alert_error_rate_threshold (0.05, in hundredths), alert_cooldown_seconds
alert_cpu_threshold == 80
alert_memory_threshold == 85
alert_error_rate_threshold == 5
alert_cooldown_seconds == 60

MaxAlertNow == 120

\* dict.get(key, default)
Get(d, key, default) == IF key \in DOMAIN d THEN d[key] ELSE default

_check_cpu_threshold(containers) ==
    IF Get(Get(containers, "aggregated", <<>>), "total_cpu_percent", 0)
           > alert_cpu_threshold
    THEN <<[type |-> "high_cpu"]>> ELSE <<>>

_check_memory_threshold(containers) ==
    IF Get(Get(containers, "aggregated", <<>>), "total_memory_percent", 0)
           > alert_memory_threshold
    THEN <<[type |-> "high_memory"]>> ELSE <<>>

_check_error_rate_threshold(metrics) ==
    IF Get(Get(metrics, "performance", <<>>), "error_rate", 0)
           > alert_error_rate_threshold
    THEN <<[type |-> "high_error_rate"]>> ELSE <<>>

\* one alert for each container of the list that is not running
_check_container_health(containers) ==
    LET container_list == Get(containers, "containers", <<>>)
        down == SelectSeq(container_list,
                          LAMBDA c : Get(c, "status", "unknown") # "running")
    IN  [i \in 1..Len(down) |->
            [type |-> "container_down",
             container_name |-> Get(down[i], "name", "unknown"),
             status |-> Get(down[i], "status", "unknown")]]

\* the cooldown key of an alert: its type, and f"container_down_{name}"
AlertKey(alert) ==
    IF alert.type = "container_down"
    THEN <<"container_down_", Get(alert, "container_name", "unknown")>>
    ELSE <<alert.type>>

\* _should_broadcast_alert that lets an alert through one second early
_should_broadcast_alert_early(cooldowns, alert_type, t) ==
    IF alert_type \notin DOMAIN cooldowns THEN TRUE
    ELSE t - cooldowns[alert_type] >= alert_cooldown_seconds - 1

_should_broadcast_alert(cooldowns, alert_type, t) ==
    IF alert_type \notin DOMAIN cooldowns THEN TRUE
    ELSE t - cooldowns[alert_type] >= alert_cooldown_seconds

\* "if alert and self._should_broadcast_alert(key): alerts.append(alert);
\* self._record_alert_broadcast(key)" for the candidates in turn, on a
\* running x = [alerts, cooldowns]
RECURSIVE Broadcast(_, _, _)
Broadcast(x, candidates, t) ==
    IF candidates = <<>> THEN x
    ELSE LET alert == Head(candidates)
             key == AlertKey(alert)
         IN  Broadcast(IF _should_broadcast_alert(x.cooldowns, key, t)
                       THEN [alerts |-> Append(x.alerts, alert),
                             cooldowns |-> Put(x.cooldowns, key, t)]
                       ELSE x,
                       Tail(candidates), t)

\* the alerts whose thresholds the arguments exceed, in the order of the checks
Candidates(metrics, containers) ==
    _check_cpu_threshold(containers) \o _check_memory_threshold(containers)
        \o _check_error_rate_threshold(metrics) \o _check_container_health(containers)

\* check_all_thresholds called at time t: [alerts, cooldowns]
check_all_thresholds(cooldowns, metrics, containers, t) ==
    Broadcast([alerts |-> <<>>, cooldowns |-> cooldowns],
              Candidates(metrics, containers), t)

\* the container lists of the model: none, kato running, kato exited,
\* two entries for an exited kato, an entry without a name
ContainerLists ==
    {<<>>,
     <<[name |-> "kato", status |-> "running"]>>,
     <<[name |-> "kato", status |-> "exited"]>>,
     <<[name |-> "kato", status |-> "exited"], [name |-> "kato", status |-> "dead"]>>}

InitAlert ==
    /\ readOnly = FALSE
    /\ ch = <<>>
    /\ redis = <<>>
    /\ last = NoCall
    /\ nops = 0
    /\ listing = NoListing
    /\ NoTrace

AlertTick ==
    /\ \E d \in {alert_cooldown_seconds - 1, alert_cooldown_seconds} :
          /\ now + d <= MaxAlertNow
          /\ now' = now + d
    /\ UNCHANGED <<ch, redis, readOnly, last, nops, listing, traceVars, _symbol_cache,
                   _alert_cooldowns, wsVars>>

CheckAllThresholds ==
    /\ \E cpu \in {alert_cpu_threshold, alert_cpu_threshold + 1},
          mem \in {alert_memory_threshold, alert_memory_threshold + 1},
          err \in {alert_error_rate_threshold, alert_error_rate_threshold + 1},
          container_list \in ContainerLists :
          LET metrics == [performance |-> [error_rate |-> err]]
              containers == [aggregated |-> [total_cpu_percent |-> cpu,
                                             total_memory_percent |-> mem],
                             containers |-> container_list]
              res == check_all_thresholds(_alert_cooldowns, metrics, containers, now)
          IN  /\ last' = [op |-> "check_all_thresholds",
                          exceeded |-> {AlertKey(a) :
                                           a \in Range(Candidates(metrics, containers))},
                          alerts |-> res.alerts, at |-> now]
              /\ _alert_cooldowns' = res.cooldowns
    /\ UNCHANGED <<ch, redis, readOnly, nops, listing, traceVars, _symbol_cache, now,
                   wsVars>>

NextAlert == AlertTick \/ CheckAllThresholds

SpecAlert == InitAlert /\ [][NextAlert]_vars

\* a step of check_all_thresholds
ThresholdsChecked ==
    /\ last'.op = "check_all_thresholds"
    /\ <<last', _alert_cooldowns'>> # <<last, _alert_cooldowns>>

\* the keys of the alerts a call returned
Emitted(call) == {AlertKey(call.alerts[i]) : i \in 1..Len(call.alerts)}

\* the key was never emitted, or its last emission is 60 s old or older
CooledDown(key) ==
    key \notin DOMAIN _alert_cooldowns \/ now - _alert_cooldowns[key] >= 60

\* C26: _alert_cooldowns holds for each key the time of its last emission; a
\* call of check_all_thresholds emits a key only if the key was never
\* emitted or its last emission is at least alert_cooldown_seconds (60) old,
\* emits no key twice, and emits every key whose threshold is exceeded and
\* which is not in its own cooldown, whatever the cooldowns of other keys.
C26_CooldownPerKey ==
    [][ThresholdsChecked =>
          /\ \A key \in Emitted(last') : CooledDown(key)
          /\ \A i, j \in 1..Len(last'.alerts) :
                AlertKey(last'.alerts[i]) = AlertKey(last'.alerts[j]) => i = j
          /\ \A key \in last'.exceeded : CooledDown(key) => key \in Emitted(last')
          /\ Emitted(last') \subseteq last'.exceeded
          /\ DOMAIN _alert_cooldowns' = DOMAIN _alert_cooldowns \cup Emitted(last')
          /\ \A key \in DOMAIN _alert_cooldowns' :
                _alert_cooldowns'[key] =
                    IF key \in Emitted(last') THEN now ELSE _alert_cooldowns[key]]_vars

\* high_cpu, emitted 59 s ago and exceeded again, was held back by a call
\* that emitted the alert of a container for the first time
C26_Witness ==
    /\ last.op = "check_all_thresholds"
    /\ <<"high_cpu">> \in last.exceeded
    /\ <<"high_cpu">> \notin Emitted(last)
    /\ now - _alert_cooldowns[<<"high_cpu">>] = alert_cooldown_seconds - 1
    /\ <<"container_down_", "kato">> \in Emitted(last)
    /\ Len(last.alerts) = 1

----------------------------------------------------------------------------
(* WebSocket connection manager (websocket.py).  A manager is the record   *)
(* of its four fields; a task is "running" from create_task on, "cancelling" *)
(* once cancel() was called on it and until the CancelledError reaches it  *)
(* at its next await, and "done" afterwards.                               *)

MaxSockets == 2

MaxTasks == 3

Manager(connections, running, task, all) ==
    [active_connections |-> connections, _running |-> running,
     broadcast_task |-> task, tasks |-> all]

\* list.remove(x): the list without the first x
Remove(s, x) ==
    LET i == Index(s, x) + 1
    IN  SubSeq(s, 1, i - 1) \o SubSeq(s, i + 1, Len(s))

\* Task.cancel()
Cancel(all, task) ==
    IF all[task] = "done" THEN all ELSE Put(all, task, "cancelling")

\* connect(websocket), once websocket.accept() has returned
connect(m, websocket) ==
    LET connections == Append(m.active_connections, websocket)
        task == Cardinality(DOMAIN m.tasks) + 1
    IN  IF ~m._running /\ Len(connections) > 0
        THEN Manager(connections, TRUE, task, Put(m.tasks, task, "running"))
        ELSE Manager(connections, m._running, m.broadcast_task, m.tasks)

\* disconnect that leaves _running as it is
disconnect_stays_running(m, websocket) ==
    LET connections == IF websocket \in Range(m.active_connections)
                       THEN Remove(m.active_connections, websocket)
                       ELSE m.active_connections
    IN  IF Len(connections) = 0
        THEN IF m.broadcast_task # NoTask
             THEN Manager(connections, m._running, NoTask,
                          Cancel(m.tasks, m.broadcast_task))
             ELSE Manager(connections, m._running, m.broadcast_task, m.tasks)
        ELSE Manager(connections, m._running, m.broadcast_task, m.tasks)

disconnect(m, websocket) ==
    LET connections == IF websocket \in Range(m.active_connections)
                       THEN Remove(m.active_connections, websocket)
                       ELSE m.active_connections
    IN  IF Len(connections) = 0
        THEN IF m.broadcast_task # NoTask
             THEN Manager(connections, FALSE, NoTask, Cancel(m.tasks, m.broadcast_task))
             ELSE Manager(connections, FALSE, m.broadcast_task, m.tasks)
        ELSE Manager(connections, m._running, m.broadcast_task, m.tasks)

\* "for conn in disconnected: self.disconnect(conn)"
RECURSIVE DisconnectAll(_, _)
DisconnectAll(m, disconnected) ==
    IF disconnected = <<>> THEN m
    ELSE DisconnectAll(disconnect(m, Head(disconnected)), Tail(disconnected))

\* one send loop of the broadcast functions: the connections whose
\* send_text raises are collected in the order of the list and disconnected
broadcast(m, failing) ==
    DisconnectAll(m, SelectSeq(m.active_connections, LAMBDA c : c \in failing))

\* a resumption of the task: the CancelledError of a cancelled task ends it;
\* `while self._running and len(self.active_connections) > 0` ends it when
\* the condition is false; otherwise one round of the loop up to its sleep
_broadcast_metrics(m, task, failing) ==
    IF m.tasks[task] = "cancelling"
    THEN Manager(m.active_connections, m._running, m.broadcast_task,
                 Put(m.tasks, task, "done"))
    ELSE IF ~(m._running /\ Len(m.active_connections) > 0)
    THEN Manager(m.active_connections, m._running, m.broadcast_task,
                 Put(m.tasks, task, "done"))
    ELSE broadcast(m, failing)

TheManager == Manager(active_connections, _running, broadcast_task, tasks)

\* the manager's fields after a call
Managed(m) ==
    /\ active_connections' = m.active_connections
    /\ _running' = m._running
    /\ broadcast_task' = m.broadcast_task
    /\ tasks' = m.tasks
    /\ UNCHANGED <<ch, redis, readOnly, nops, listing, traceVars, _symbol_cache, now,
                   _alert_cooldowns>>

InitWs ==
    /\ readOnly = FALSE
    /\ ch = <<>>
    /\ redis = <<>>
    /\ last = NoCall
    /\ nops = 0
    /\ listing = NoListing
    /\ NoTrace

\* a client connects: the endpoint calls manager.connect
Connect ==
    \E websocket \in 1..MaxSockets :
        /\ websocket \notin Range(active_connections)
        /\ Cardinality(DOMAIN tasks) < MaxTasks
        /\ Managed(connect(TheManager, websocket))
        /\ last' = [op |-> "connect", websocket |-> websocket]

\* the endpoint's receive raises, or a heartbeat or personal message fails
Disconnect ==
    \E websocket \in 1..MaxSockets :
        /\ Managed(disconnect(TheManager, websocket))
        /\ last' = [op |-> "disconnect", websocket |-> websocket]

\* the event loop resumes a broadcast task
BroadcastRound ==
    \E task \in DOMAIN tasks, failing \in SUBSET (1..MaxSockets) :
        /\ tasks[task] # "done"
        /\ Managed(_broadcast_metrics(TheManager, task, failing))
        /\ last' = [op |-> "_broadcast_metrics", task |-> task, failing |-> failing]

NextWs == Connect \/ Disconnect \/ BroadcastRound

SpecWs == InitWs /\ [][NextWs]_vars

\* the broadcast task is there and neither cancelled nor finished
LiveTask == broadcast_task # NoTask /\ tasks[broadcast_task] = "running"

\* C27: in every state the manager is marked running with a live broadcast
\* task when a connection is registered, and is not running and has no task
\* when none is; a connection that arrives when none is registered starts a
\* task that did not exist before.
C27_BroadcastRunsIffConnected ==
    /\ [](IF Len(active_connections) > 0
          THEN _running /\ LiveTask
          ELSE ~_running /\ broadcast_task = NoTask)
    /\ [][(Len(active_connections) = 0 /\ Len(active_connections') > 0)
             => /\ broadcast_task' \notin DOMAIN tasks
                /\ broadcast_task' \in DOMAIN tasks'
                /\ tasks'[broadcast_task'] = "running"]_vars

\* the send to the only client failed inside the second broadcast task, which
\* disconnected the client and thereby cancelled itself; the first task ended
\* when its client left
C27_Witness ==
    /\ last.op = "_broadcast_metrics"
    /\ last.task = 2
    /\ last.failing # {}
    /\ Len(active_connections) = 0
    /\ tasks[1] = "done"
    /\ tasks[2] = "cancelling"
    /\ ~_running

\* C29: in the graph a trace returns, the source and the target of every edge
\* are ids of nodes of the graph, also when a referenced pattern is missing
\* from the lower kb, lies one step beyond max_depth or was visited before.
C29_NoDanglingEdge ==
    tracing.pc = "done" =>
        \A i \in 1..Len(edges) :
            edges[i].source \in NodeIds /\ edges[i].target \in NodeIds

\* the call reported success: True of update and delete, counts without an
\* error of the bulk delete and the delete of a knowledge base
Succeeded(call) ==
    CASE call.op \in {"update_pattern_hybrid", "delete_pattern_hybrid"} -> call.ret
      [] call.op \in {"bulk_delete_patterns_hybrid", "delete_knowledgebase_hybrid"} ->
             "error" \notin DOMAIN call.ret
      [] OTHER -> FALSE

\* every frequency, emotives or metadata key belongs to a stored pattern
NoOrphans(c, r) ==
    \A k \in DOMAIN r : k[2] \in KindSet => <<k[1], k[3]>> \in DOMAIN c

\* C30: a call of update_pattern_hybrid, delete_pattern_hybrid,
\* bulk_delete_patterns_hybrid or delete_knowledgebase_hybrid that reports
\* success on stores without orphaned metadata leaves stores without
\* orphaned metadata: Redis holds a frequency, emotives or metadata key only
\* for a (kb_id, name) that has a ClickHouse row; in particular an update of a
\* pattern that does not exist creates no key.
C30_NoOrphanedMetadata ==
    [][(nops' = nops + 1 /\ Succeeded(last') /\ NoOrphans(ch, redis))
          => NoOrphans(ch', redis')]_vars

====
